---- MODULE Spec2Model ----
(***************************************************************************)
(* Verification model of the trading core of btc-intelligence-hub:         *)
(*   - EnhancedTPSL        (trading/enhanced_tpsl.py)                      *)
(*   - ExtendedSignalScorer (trading/extended_scorer.py)                   *)
(*   - score_level / classify_level (trading/levels/level_scorer.py)       *)
(*                                                                         *)
(* Numbers.  The code computes in binary floating point.  The model        *)
(* computes the same expressions in exact fixed point: an input price is   *)
(* an integer number of quanta, `res` quanta make one currency unit, and   *)
(* every derived price is held as DEN times its value in quanta, which     *)
(* makes all products with the code's multipliers (0.5, 1.5, 2.5, 1.2 ...) *)
(* integers.  Floating point visibly departs from exact arithmetic in two  *)
(* places, and there the model allows both outcomes:                       *)
(*   - round(x, 2) of a value that is exactly halfway between two          *)
(*     hundredths goes by the binary representation of x: either           *)
(*     neighbour, unless x was computed exactly (then ties go to even);    *)
(*   - the comparison rr < min_rr of a target placed exactly at            *)
(*     entry +/- risk * min_rr goes by the argument fields fp1, fp2        *)
(*     (see RRBelowMin).                                                   *)
(***************************************************************************)
EXTENDS Integers, Sequences, FiniteSets, TLC

VARIABLES
    inst,     \* the shared EnhancedTPSL instance: its three _last_*_method fields
    frame,    \* per caller: position in calculate(), arguments, locals, result
    scan,     \* ExtendedSignalScorer.calculate: last arguments and result
    lvl,      \* level scorer: last scored PriceLevel and its classification
    call      \* the call in progress of a stateless function: name, arguments,
              \* locals and, once it returned, its result

vars == <<inst, frame, scan, lvl, call>>

-----------------------------------------------------------------------------
(* Arithmetic helpers *)

\* Common denominator of every derived price: 8 for the chains of halves
\* (1.5 * 1.5 * 1.5, 1.5 * 0.5 * 2.5 ...), 5 for the factor 1.2.
DEN == 8 * 5

V(p) == p * DEN

Abs(x) == IF x < 0 THEN -x ELSE x

Min2(x, y) == IF x < y THEN x ELSE y

Max2(x, y) == IF x > y THEN x ELSE y

\* Python round(): nearest integer to n / d, ties to the even neighbour (d > 0).
RoundHalfEven(n, d) ==
    LET q == n \div d
        r == n % d
    IN  IF 2 * r < d THEN q
        ELSE IF 2 * r > d THEN q + 1
        ELSE IF q % 2 = 0 THEN q ELSE q + 1

\* The values round() can return for the float nearest to n / d: a tie of an
\* inexactly computed value falls to either side.
RoundSet(n, d, exact) ==
    IF 2 * (n % d) = d /\ ~exact THEN {n \div d, n \div d + 1}
    ELSE {RoundHalfEven(n, d)}

\* round(x * m1 * m2 / d) without leaving 32 bits (x, m1, m2 >= 0, d > 0).
MulDivRoundSet(x, m1, m2, d) ==
    LET q1 == (x * m1) \div d
        r1 == (x * m1) % d
    IN  {q1 * m2 + r : r \in RoundSet(r1 * m2, d, FALSE)}

\* round(price, 2): an internal price as an integer number of hundredths.
\* Prices built from integer arguments (res = 1) are computed exactly.
Round2(v, res) == RoundSet(v * 100, DEN * res, res = 1)

\* round(abs(x - entry) / entry * 100, 2), in hundredths of a percent.
PctRound2(diff, e) == MulDivRoundSet(diff, 100, 100, e)

\* f"{pct:.1f}": tenths of a percent as text.
PctFormat1(diff, e) ==
    {ToString(t \div 10) \o "." \o ToString(t % 10) : t \in MulDivRoundSet(diff, 100, 10, e)}

-----------------------------------------------------------------------------
(* enhanced_tpsl.py: module constants *)

\* ATR_BUFFER with every timeframe on the default multiplier
ATR_BUFFER_DefaultOnly(tf) == 15

\* ATR_BUFFER, in tenths (1.0, 1.5, 2.0, 2.5; .get default 1.5)
ATR_BUFFER(tf) ==
    CASE tf = "1H" -> 10 [] tf = "4H" -> 15 [] tf = "1D" -> 20 [] tf = "1W" -> 25
      [] OTHER -> 15

\* MAX_SL_PERCENT with every timeframe on the default cap
MAX_SL_PERCENT_DefaultOnly(tf) == 4

\* MAX_SL_PERCENT, in percent (.get default 4.0)
MAX_SL_PERCENT(tf) ==
    CASE tf = "1H" -> 2 [] tf = "4H" -> 4 [] tf = "1D" -> 7 [] tf = "1W" -> 12
      [] OTHER -> 4

\* MIN_RR_TP1, in tenths (.get default 1.5)
MIN_RR_TP1(tf) ==
    CASE tf = "1H" -> 12 [] tf = "4H" -> 15 [] tf = "1D" -> 15 [] tf = "1W" -> 20
      [] OTHER -> 15

\* MIN_RR_TP2, in tenths (.get default 2.5)
MIN_RR_TP2(tf) ==
    CASE tf = "1H" -> 20 [] tf = "4H" -> 25 [] tf = "1D" -> 30 [] tf = "1W" -> 40
      [] OTHER -> 25

-----------------------------------------------------------------------------
(* enhanced_tpsl.py: module-level helpers *)

\* _near(price_a, price_b, tolerance_pct); tolerance in tenths of a percent.
Near(price_a, price_b, tol10) ==
    IF price_b = 0 THEN FALSE
    ELSE IF price_b < 0 THEN TRUE
    ELSE Abs(price_a - price_b) * 1000 <= tol10 * price_b

\* _find_fib_retracement(fibs, ratio): the first matching price; 0 stands for
\* None (the callers test the result for truth, which treats both alike).
FindFibRetracement(fibs, ratio) ==
    LET hits == SelectSeq(fibs.retracements, LAMBDA r : r.ratio = ratio)
    IN  IF hits = <<>> THEN 0 ELSE hits[1].price

\* max(xs, key=price) / min(xs, key=price) over a list of (name, price): the
\* first element that no other beats.
MaxByPrice(s) ==
    s[CHOOSE i \in DOMAIN s : \A j \in DOMAIN s :
          s[j].price < s[i].price \/ (s[j].price = s[i].price /\ j >= i)]

MinByPrice(s) ==
    s[CHOOSE i \in DOMAIN s : \A j \in DOMAIN s :
          s[j].price > s[i].price \/ (s[j].price = s[i].price /\ j >= i)]

HighestPrice(S) == CHOOSE p \in {x.price : x \in S} : \A x \in S : x.price <= p

LowestPrice(S) == CHOOSE p \in {x.price : x \in S} : \A x \in S : x.price >= p

Cand(name, price) == [name |-> name, price |-> price]

One(cond, name, price) == IF cond THEN << Cand(name, price) >> ELSE << >>

\* The ATR is a.atr * 10^-a.atr_exp quanta, and buffer and every offset taken
\* from it are held times 10^a.atr_exp.  Offset(a, x) is what adding or
\* subtracting the offset x moves a price by: the floating-point sum is the
\* nearest representable price, so an offset below half the spacing of the
\* prices moves nothing.  The only exponent used besides 0 goes with a.atr = 1,
\* res = 1 and prices near 100000, whose doubles are 2^-36 apart (1.5e-11),
\* while 1.5 buffers are at most 3.75 * 10^-a.atr_exp.
Offset(a, x) == IF a.atr_exp = 0 THEN x ELSE 0

\* _atr_fallback_sl one buffer away from entry
AtrFallbackSlOneBuffer(a, buffer) ==
    IF a.direction = "LONG" THEN V(a.entry) - Offset(a, buffer)
    ELSE V(a.entry) + Offset(a, buffer)

\* _atr_fallback_sl(entry, direction, buffer)
AtrFallbackSl(a, buffer) ==
    IF a.direction = "LONG" THEN V(a.entry) - Offset(a, (buffer * 3) \div 2)
    ELSE V(a.entry) + Offset(a, (buffer * 3) \div 2)

-----------------------------------------------------------------------------
(* EnhancedTPSL._calculate_sl *)

SlCandidates(a, buffer) ==
    LET fib_786 == FindFibRetracement(a.fibs, 786)
    IN
    IF a.direction = "LONG" THEN
        LET supports == {lv \in a.levels :
                            lv.type = "support" /\ lv.price < a.entry /\ lv.strength >= 10}
            recent_lows == {s \in a.swing_points : s.type = "low" /\ s.price < a.entry}
        IN     One(supports # {}, "gran_soporte",
                   IF supports # {} THEN V(HighestPrice(supports)) - Offset(a, buffer) ELSE 0)
            \o One(fib_786 # 0 /\ fib_786 < a.entry, "fib_0786", V(fib_786) - Offset(a, buffer))
            \o One(recent_lows # {}, "swing_low",
                   IF recent_lows # {} THEN V(HighestPrice(recent_lows)) - Offset(a, buffer) ELSE 0)
            \o One(a.bb.lower # 0 /\ a.bb.lower < a.entry, "bb_lower",
                   V(a.bb.lower) - Offset(a, buffer \div 2))
            \o One(TRUE, "atr_fallback", V(a.entry) - Offset(a, (buffer * 3) \div 2))
    ELSE
        LET resistances == {lv \in a.levels :
                            lv.type = "resistance" /\ lv.price > a.entry /\ lv.strength >= 10}
            recent_highs == {s \in a.swing_points : s.type = "high" /\ s.price > a.entry}
        IN     One(resistances # {}, "gran_resistencia",
                   IF resistances # {} THEN V(LowestPrice(resistances)) + Offset(a, buffer) ELSE 0)
            \o One(fib_786 # 0 /\ fib_786 > a.entry, "fib_0786", V(fib_786) + Offset(a, buffer))
            \o One(recent_highs # {}, "swing_high",
                   IF recent_highs # {} THEN V(LowestPrice(recent_highs)) + Offset(a, buffer) ELSE 0)
            \o One(a.bb.upper # 0 /\ a.bb.upper > a.entry, "bb_upper",
                   V(a.bb.upper) + Offset(a, buffer \div 2))
            \o One(TRUE, "atr_fallback", V(a.entry) + Offset(a, (buffer * 3) \div 2))

\* p respects the cap: p >= entry * (1 - max/100) (LONG), p <= entry * (1 + max/100) (SHORT).
\* (For a candidate exactly on the cap the floating-point product decides; the
\* argument sets below hold no such candidate.)
WithinCap(a, p) ==
    IF a.direction = "LONG"
    THEN p * 100 >= V(a.entry) * (100 - MAX_SL_PERCENT(a.timeframe))
    ELSE p * 100 <= V(a.entry) * (100 + MAX_SL_PERCENT(a.timeframe))

\* _calculate_sl taking the first candidate that respects the cap, in the order
\* the candidates are listed
CalculateSlFirstWithinCap(a, buffer) ==
    LET candidates == SlCandidates(a, buffer)
        valid == SelectSeq(candidates, LAMBDA c : WithinCap(a, c.price))
    IN  IF valid # <<>> THEN valid[1]
        ELSE Cand("atr_fallback", AtrFallbackSl(a, buffer))

\* The price returned and the tag written to self._last_sl_method.
CalculateSl(a, buffer) ==
    LET candidates == SlCandidates(a, buffer)
        valid == SelectSeq(candidates, LAMBDA c : WithinCap(a, c.price))
    IN  IF valid # <<>>
        THEN IF a.direction = "LONG" THEN MaxByPrice(valid) ELSE MinByPrice(valid)
        ELSE Cand("atr_fallback", AtrFallbackSl(a, buffer))

-----------------------------------------------------------------------------
(* EnhancedTPSL._pick_tp: the candidate returned; its name is the tag written *)

\* _pick_tp always taking the last candidate (the fallback of its own branch)
PickTpLastCandidate(candidates, a) == candidates[Len(candidates)]

\* (candidates is never empty here: both callers append the atr_fallback
\* candidate last, so the early "return entry" of _pick_tp is not taken)
PickTp(candidates, a) ==
    IF a.direction = "LONG" THEN
        LET valid == SelectSeq(candidates, LAMBDA c : c.price > V(a.entry))
        IN  IF valid # <<>> THEN MinByPrice(valid) ELSE candidates[Len(candidates)]
    ELSE
        LET valid == SelectSeq(candidates, LAMBDA c : c.price < V(a.entry))
        IN  IF valid # <<>> THEN MaxByPrice(valid) ELSE candidates[Len(candidates)]

\* [(name, ext["price"]) for ext in sel], sel the extensions that pass the test
ExtCands(sel, name) == [i \in 1..Len(sel) |-> Cand(name, V(sel[i].price))]

FirstOf(s) == IF s = <<>> THEN <<>> ELSE << s[1] >>

-----------------------------------------------------------------------------
(* EnhancedTPSL._calculate_tp1 *)

Tp1Candidates(a, risk) ==
    LET fallback == (risk * MIN_RR_TP1(a.timeframe)) \div 10
    IN
    IF a.direction = "LONG" THEN
        LET strong == {lv \in a.levels : lv.type = "resistance" /\ lv.strength >= 8}
            resistances == {lv \in strong : lv.price > a.entry}
            highs == {s \in a.swing_points : s.type = "high" /\ s.price > a.entry}
        IN     ExtCands(SelectSeq(a.fibs.extensions,
                            LAMBDA ext : ext.price > a.entry /\ \E lv \in strong : Near(ext.price, lv.price, 10)),
                        "fib_ext_at_level")
            \o One(resistances # {}, "strong_resistance",
                   IF resistances # {} THEN V(LowestPrice(resistances)) ELSE 0)
            \o One(highs # {}, "swing_high",
                   IF highs # {} THEN V(LowestPrice(highs)) ELSE 0)
            \o One(a.bb.mid # 0 /\ a.bb.mid > a.entry, "bb_mid", V(a.bb.mid))
            \o One(TRUE, "atr_fallback", V(a.entry) + fallback)
    ELSE
        LET strong == {lv \in a.levels : lv.type = "support" /\ lv.strength >= 8}
            supports == {lv \in strong : lv.price < a.entry}
            lows == {s \in a.swing_points : s.type = "low" /\ s.price < a.entry}
        IN     ExtCands(SelectSeq(a.fibs.extensions,
                            LAMBDA ext : ext.price < a.entry /\ \E lv \in strong : Near(ext.price, lv.price, 10)),
                        "fib_ext_at_level")
            \o One(supports # {}, "strong_support",
                   IF supports # {} THEN V(HighestPrice(supports)) ELSE 0)
            \o One(lows # {}, "swing_low",
                   IF lows # {} THEN V(HighestPrice(lows)) ELSE 0)
            \o One(a.bb.mid # 0 /\ a.bb.mid < a.entry, "bb_mid", V(a.bb.mid))
            \o One(TRUE, "atr_fallback", V(a.entry) - fallback)

CalculateTp1(a, risk) == PickTp(Tp1Candidates(a, risk), a)

-----------------------------------------------------------------------------
(* EnhancedTPSL._calculate_tp2; tp1 is an internal price *)

Tp2Candidates(a, risk, tp1) ==
    LET fallback == (risk * MIN_RR_TP2(a.timeframe)) \div 10
    IN
    IF a.direction = "LONG" THEN
        LET strong == {lv \in a.levels : lv.type = "resistance" /\ lv.strength >= 8}
            resistances == {lv \in strong : V(lv.price) > tp1}
        IN     ExtCands(SelectSeq(a.fibs.extensions,
                            LAMBDA ext : ext.ratio = 1618 /\ V(ext.price) > tp1 /\ \E lv \in strong : Near(ext.price, lv.price, 15)),
                        "fib_1618_at_level")
            \o One(resistances # {}, "next_resistance",
                   IF resistances # {} THEN V(LowestPrice(resistances)) ELSE 0)
            \o FirstOf(ExtCands(SelectSeq(a.fibs.extensions,
                            LAMBDA ext : ext.ratio = 1618 /\ V(ext.price) > tp1),
                        "fib_1618"))
            \o One(a.bb.upper # 0 /\ V(a.bb.upper) > tp1, "bb_upper", V(a.bb.upper))
            \o One(TRUE, "atr_fallback", V(a.entry) + fallback)
    ELSE
        LET strong == {lv \in a.levels : lv.type = "support" /\ lv.strength >= 8}
            supports == {lv \in strong : V(lv.price) < tp1}
        IN     ExtCands(SelectSeq(a.fibs.extensions,
                            LAMBDA ext : ext.ratio = 1618 /\ V(ext.price) < tp1 /\ \E lv \in strong : Near(ext.price, lv.price, 15)),
                        "fib_1618_at_level")
            \o One(supports # {}, "next_support",
                   IF supports # {} THEN V(HighestPrice(supports)) ELSE 0)
            \o FirstOf(ExtCands(SelectSeq(a.fibs.extensions,
                            LAMBDA ext : ext.ratio = 1618 /\ V(ext.price) < tp1),
                        "fib_1618"))
            \o One(a.bb.lower # 0 /\ V(a.bb.lower) < tp1, "bb_lower", V(a.bb.lower))
            \o One(TRUE, "atr_fallback", V(a.entry) - fallback)

CalculateTp2(a, risk, tp1) == PickTp(Tp2Candidates(a, risk, tp1), a)

-----------------------------------------------------------------------------
(* EnhancedTPSL: the instance and one call of calculate() *)

\* __init__
FreshInstance ==
    [last_sl_method |-> "", last_tp1_method |-> "", last_tp2_method |-> ""]

NoBB == [upper |-> 0, mid |-> 0, lower |-> 0]

NoFibs == [retracements |-> << >>, extensions |-> << >>]

NoArgs ==
    [res |-> 1, entry |-> 1, direction |-> "LONG", timeframe |-> "1H", atr |-> 0,
     atr_exp |-> 0, bb |-> NoBB, levels |-> {}, fibs |-> NoFibs, swing_points |-> {},
     fp1 |-> FALSE, fp2 |-> FALSE]

NoResult == [valid |-> FALSE, reason |-> "(no call returned yet)"]

Invalid(reason) == [valid |-> FALSE, reason |-> reason]

IdleFrame ==
    [pc |-> "idle", a |-> NoArgs, prior |-> FreshInstance, buffer |-> 0, sl |-> 0,
     risk |-> 0, tp1 |-> 0, tp2 |-> 0, result |-> NoResult]

\* The frame of a call just entered; prior remembers (for the claims only) what
\* the instance held at that moment.
CallFrame(a, i) == [IdleFrame EXCEPT !.pc = "call", !.a = a, !.prior = i]

\* the minimum R:R never enforced
RRNeverBelowMin(dist, risk, min_rr, fp) == FALSE

\* rr < min_rr, for a target at distance dist from entry.  When the target sits
\* exactly at risk * min_rr the floating-point quotient is min_rr give or take
\* one rounding, and the comparison goes the way the flag fp says.
RRBelowMin(dist, risk, min_rr, fp) ==
    dist * 10 < risk * min_rr \/ (dist * 10 = risk * min_rr /\ fp)

\* calculate(), lines 71-95: the ATR guard, the stop loss and its validation.
\* The outcomes: more than one only where a rounding tie can fall either way.
SlStep(i, fr) ==
    LET a == fr.a
        e == V(a.entry)
        cap == MAX_SL_PERCENT(a.timeframe)
        buffer == a.atr * ATR_BUFFER(a.timeframe) * (DEN \div 10)
        picked == CalculateSl(a, buffer)
        retry == Abs(e - picked.price) * 100 > cap * e
        fallback == AtrFallbackSl(a, buffer)
        sl == IF retry THEN fallback ELSE picked.price
        tag == IF retry THEN "atr_fallback" ELSE picked.name
        i1 == [i EXCEPT !.last_sl_method = tag]
    IN  IF a.atr <= 0 THEN
            {[inst |-> i,
              fr |-> [fr EXCEPT !.pc = "done",
                                !.result = Invalid("ATR is zero or negative")]]}
        ELSE IF retry /\ Abs(e - fallback) * 100 > cap * e THEN
            {[inst |-> i1,
              fr |-> [fr EXCEPT !.pc = "done",
                                !.result = Invalid("SL " \o pct \o "% exceeds max "
                                                   \o ToString(cap) \o ".0%")]]
               : pct \in PctFormat1(Abs(e - fallback), e)}
        ELSE IF Abs(e - sl) = 0 THEN
            {[inst |-> i1,
              fr |-> [fr EXCEPT !.pc = "done",
                                !.result = Invalid("Risk is zero (SL = entry)")]]}
        ELSE
            {[inst |-> i1,
              fr |-> [fr EXCEPT !.pc = "tp1", !.buffer = buffer, !.sl = sl,
                                !.risk = Abs(e - sl)]]}

\* take profit 1 with the tag left as it was when the minimum R:R is forced
Tp1StepStaleTag(i, fr) ==
    LET a == fr.a
        e == V(a.entry)
        min_rr1 == MIN_RR_TP1(a.timeframe)
        picked == CalculateTp1(a, fr.risk)
        low == RRBelowMin(Abs(picked.price - e), fr.risk, min_rr1, a.fp1)
        forced == IF a.direction = "LONG" THEN e + (fr.risk * min_rr1) \div 10
                  ELSE e - (fr.risk * min_rr1) \div 10
    IN  [inst |-> IF low THEN i ELSE [i EXCEPT !.last_tp1_method = picked.name],
         fr |-> [fr EXCEPT !.pc = "tp2",
                           !.tp1 = IF low THEN forced ELSE picked.price]]

\* calculate(), lines 97-108: take profit 1 and its minimum R:R.
Tp1Step(i, fr) ==
    LET a == fr.a
        e == V(a.entry)
        min_rr1 == MIN_RR_TP1(a.timeframe)
        picked == CalculateTp1(a, fr.risk)
        low == RRBelowMin(Abs(picked.price - e), fr.risk, min_rr1, a.fp1)
        forced == IF a.direction = "LONG" THEN e + (fr.risk * min_rr1) \div 10
                  ELSE e - (fr.risk * min_rr1) \div 10
    IN  [inst |-> [i EXCEPT !.last_tp1_method =
                                IF low THEN "min_rr_fallback" ELSE picked.name],
         fr |-> [fr EXCEPT !.pc = "tp2",
                           !.tp1 = IF low THEN forced ELSE picked.price]]

\* take profit 2 with the minimum R:R not enforced
Tp2StepUnforced(i, fr) ==
    LET picked == CalculateTp2(fr.a, fr.risk, fr.tp1)
    IN  [inst |-> [i EXCEPT !.last_tp2_method = picked.name],
         fr |-> [fr EXCEPT !.pc = "ret", !.tp2 = picked.price]]

\* calculate(), lines 110-121: take profit 2 and its minimum R:R.
Tp2Step(i, fr) ==
    LET a == fr.a
        e == V(a.entry)
        min_rr2 == MIN_RR_TP2(a.timeframe)
        picked == CalculateTp2(a, fr.risk, fr.tp1)
        low == RRBelowMin(Abs(picked.price - e), fr.risk, min_rr2, a.fp2)
        forced == IF a.direction = "LONG" THEN e + (fr.risk * min_rr2) \div 10
                  ELSE e - (fr.risk * min_rr2) \div 10
    IN  [inst |-> [i EXCEPT !.last_tp2_method =
                                IF low THEN "min_rr_fallback" ELSE picked.name],
         fr |-> [fr EXCEPT !.pc = "ret",
                           !.tp2 = IF low THEN forced ELSE picked.price]]

\* calculate(), lines 123-139: the result dict, its tags read from the instance.
ReturnStep(i, fr) ==
    LET a == fr.a
        e == V(a.entry)
    IN  {[inst |-> i,
          fr |-> [fr EXCEPT !.pc = "done", !.result =
                    [valid |-> TRUE,
                     sl |-> sl, tp1 |-> tp1, tp2 |-> tp2,
                     sl_pct |-> sl_pct, tp1_pct |-> tp1_pct, tp2_pct |-> tp2_pct,
                     rr_tp1 |-> rr_tp1, rr_tp2 |-> rr_tp2,
                     sl_method |-> i.last_sl_method,
                     tp1_method |-> i.last_tp1_method,
                     tp2_method |-> i.last_tp2_method]]]
           : sl \in Round2(fr.sl, a.res),
             tp1 \in Round2(fr.tp1, a.res),
             tp2 \in Round2(fr.tp2, a.res),
             sl_pct \in PctRound2(Abs(e - fr.sl), e),
             tp1_pct \in PctRound2(Abs(fr.tp1 - e), e),
             tp2_pct \in PctRound2(Abs(fr.tp2 - e), e),
             rr_tp1 \in RoundSet(Abs(fr.tp1 - e) * 100, fr.risk, FALSE),
             rr_tp2 \in RoundSet(Abs(fr.tp2 - e) * 100, fr.risk, FALSE)}

\* One whole call of calculate(a) on an instance in state i, run without
\* interruption: the outcomes, each the instance it leaves and the finished frame.
AfterSl(s1) ==
    IF s1.fr.pc = "done" THEN {s1}
    ELSE LET s2 == Tp1Step(s1.inst, s1.fr)
             s3 == Tp2Step(s2.inst, s2.fr)
         IN  ReturnStep(s3.inst, s3.fr)

RunCalculate(i, a) == UNION {AfterSl(s1) : s1 \in SlStep(i, CallFrame(a, i))}

-----------------------------------------------------------------------------
(* extended_scorer.py.  base_confidence is held in halves (base2 = 2 * base), *)
(* so that round() of the raw score has ties to decide; an optional number    *)
(* (None or a value) is the empty set or a singleton.                         *)

\* LEVEL_BONUSES, CANDLE_BONUSES, ONCHAIN_BONUSES, PENALTIES
LEVEL_BONUSES ==
    [at_gran_nivel |-> 8, fib_golden_pocket |-> 7, multi_tf_fib_confluence |-> 6,
     level_plus_fib |-> 5, at_ema_key |-> 3, role_flip_level |-> 4,
     psychological_level |-> 1]

CANDLE_BONUSES ==
    [strong_pattern_at_level |-> 8, moderate_pattern_at_level |-> 5,
     strong_pattern_no_level |-> 4, volume_confirms_pattern |-> 2]

ONCHAIN_BONUSES ==
    [fear_extreme_long |-> 4, greed_extreme_short |-> 4, funding_contrarian |-> 3,
     oi_low_organic |-> 3]

PENALTIES ==
    [no_clear_level |-> -5, against_htf_trend |-> -8, overextended_from_ema |-> -5,
     low_volume |-> -3, contradicting_onchain |-> -5]

\* _near(price, level_price, tolerance_pct) of extended_scorer.py; tolerance in
\* tenths of a percent.
ScorerNear(price, level_price, tol10) ==
    IF level_price = 0 THEN FALSE
    ELSE IF level_price < 0 THEN TRUE
    ELSE Abs(price - level_price) * 1000 <= tol10 * level_price

If(cond, points) == IF cond THEN points ELSE 0

\* _calc_level_bonus: the Golden Pocket test (a retracement of ratio 0.618 or
\* 0.650 within 1%).
AtGoldenPocket(a) ==
    \E i \in DOMAIN a.fibs.retracements :
        /\ a.fibs.retracements[i].ratio \in {618, 650}
        /\ ScorerNear(a.price, a.fibs.retracements[i].price, 10)

LevelPlusFibUnguarded(a, at_golden_pocket, gran) ==
    /\ gran # {}
    /\ \E i \in DOMAIN a.fibs.retracements :
           ScorerNear(a.price, a.fibs.retracements[i].price, 10)

\* _calc_level_bonus: the guard of the level + fib combo.
LevelPlusFib(a, at_golden_pocket, gran) ==
    /\ ~at_golden_pocket
    /\ gran # {}
    /\ \E i \in DOMAIN a.fibs.retracements :
           ScorerNear(a.price, a.fibs.retracements[i].price, 10)

\* _calc_level_bonus: the points each rule adds to bonus.
LevelBonusesAdded(a) ==
    LET nearby == {lv \in a.levels : ScorerNear(a.price, lv.price, 10)}
        gran == {lv \in nearby : lv.strength >= 10}
        at_golden_pocket == AtGoldenPocket(a)
        confluence ==
            \E i \in DOMAIN a.confluences :
                /\ ScorerNear(a.price, a.confluences[i].price, 10)
                /\ a.confluences[i].num_timeframes >= 2
    IN  [at_gran_nivel |-> If(gran # {}, LEVEL_BONUSES.at_gran_nivel),
         fib_golden_pocket |-> If(at_golden_pocket, LEVEL_BONUSES.fib_golden_pocket),
         multi_tf_fib_confluence |-> If(confluence, LEVEL_BONUSES.multi_tf_fib_confluence),
         level_plus_fib |->
             If(LevelPlusFib(a, at_golden_pocket, gran), LEVEL_BONUSES.level_plus_fib),
         role_flip_level |->
             If(\E lv \in nearby : lv.is_role_flip, LEVEL_BONUSES.role_flip_level),
         psychological_level |->
             If(\E lv \in nearby : lv.is_psychological, LEVEL_BONUSES.psychological_level)]

\* _calc_level_bonus
CalcLevelBonus(a) ==
    LET added == LevelBonusesAdded(a)
        bonus == added.at_gran_nivel + added.fib_golden_pocket
                 + added.multi_tf_fib_confluence + added.level_plus_fib
                 + added.role_flip_level + added.psychological_level
    IN  Min2(bonus, 20)

\* _calc_candle_bonus
CalcCandleBonus(a) ==
    LET matching == {p \in a.candle_patterns : p.direction = a.direction}
        strongest == CHOOSE s \in {p.strength : p \in matching} :
                         \A p \in matching : p.strength <= s
        at_level == \E lv \in a.levels :
                        lv.strength >= 8 /\ ScorerNear(a.price, lv.price, 10)
        pattern ==
            IF strongest >= 7 /\ at_level THEN CANDLE_BONUSES.strong_pattern_at_level
            ELSE IF strongest >= 5 /\ at_level THEN CANDLE_BONUSES.moderate_pattern_at_level
            ELSE IF strongest >= 7 THEN CANDLE_BONUSES.strong_pattern_no_level
            ELSE 0
        confirmed == a.indicators.sma20_volume > 0
                     /\ a.indicators.volume > a.indicators.sma20_volume
    IN  IF a.candle_patterns = {} \/ matching = {} THEN 0
        ELSE Min2(pattern + If(confirmed, CANDLE_BONUSES.volume_confirms_pattern), 10)

\* _calc_onchain_bonus; funding_rate is in hundredths (0.05 is 5)
CalcOnchainBonus(a) ==
    LET fear ==
            IF \E fg \in a.onchain.fear_greed : fg < 20 /\ a.direction = "LONG"
            THEN ONCHAIN_BONUSES.fear_extreme_long
            ELSE IF \E fg \in a.onchain.fear_greed : fg > 80 /\ a.direction = "SHORT"
            THEN ONCHAIN_BONUSES.greed_extreme_short
            ELSE 0
        funding ==
            IF \E fr \in a.onchain.funding_rate : fr > 5 /\ a.direction = "SHORT"
            THEN ONCHAIN_BONUSES.funding_contrarian
            ELSE IF \E fr \in a.onchain.funding_rate : fr < -3 /\ a.direction = "LONG"
            THEN ONCHAIN_BONUSES.funding_contrarian
            ELSE 0
        oi == If(\E oc \in a.onchain.oi_change_pct : oc < -10,
                 ONCHAIN_BONUSES.oi_low_organic)
    IN  IF a.timeframe \notin {"4H", "1D", "1W"} THEN 0
        ELSE Min2(fear + funding + oi, 10)

\* _calc_penalties; htf_direction "" and ema_21 0 stand for None (both are
\* tested for truth)
CalcPenalties(a) ==
    LET nearby_strong == {lv \in a.levels :
                             lv.strength >= 6 /\ ScorerNear(a.price, lv.price, 20)}
        ema_21 == a.indicators.ema_21
        overextended == ema_21 # 0 /\ ema_21 > 0
                        /\ Abs(a.price - ema_21) * 100 > 5 * ema_21
        low_volume == a.indicators.sma20_volume > 0
                      /\ a.indicators.volume * 10 < a.indicators.sma20_volume * 7
        contradicting ==
            \E fg \in a.onchain.fear_greed :
                \/ a.direction = "LONG" /\ fg > 85
                \/ a.direction = "SHORT" /\ fg < 15
        penalty ==
              If(nearby_strong = {}, PENALTIES.no_clear_level)
            + If(a.htf_direction # "" /\ a.htf_direction # a.direction,
                 PENALTIES.against_htf_trend)
            + If(overextended, PENALTIES.overextended_from_ema)
            + If(low_volume, PENALTIES.low_volume)
            + If(contradicting, PENALTIES.contradicting_onchain)
    IN  Max2(penalty, -15)

\* _classify with the STRONG tier starting at 65
ClassifyStrongFrom65(score) ==
    IF score >= 85 THEN "PREMIUM"
    ELSE IF score >= 65 THEN "STRONG"
    ELSE IF score >= 55 THEN "VALID"
    ELSE IF score >= 40 THEN "WEAK"
    ELSE "REJECTED"

\* _classify
Classify(score) ==
    IF score >= 85 THEN "PREMIUM"
    ELSE IF score >= 70 THEN "STRONG"
    ELSE IF score >= 55 THEN "VALID"
    ELSE IF score >= 40 THEN "WEAK"
    ELSE "REJECTED"

\* round(raw) without the clamp
FinalScoreUnclamped(raw2) == RoundHalfEven(raw2, 2)

\* max(0, min(100, round(raw))), raw given in halves
FinalScore(raw2) == Max2(0, Min2(100, RoundHalfEven(raw2, 2)))

\* ExtendedSignalScorer.calculate
ScorerCalculate(a) ==
    LET bonus_levels == Min2(CalcLevelBonus(a), 20)
        bonus_candles == Min2(CalcCandleBonus(a), 10)
        bonus_onchain == Min2(CalcOnchainBonus(a), 10)
        penalties == Max2(CalcPenalties(a), -15)
        final_score == FinalScore(a.base2
                                  + 2 * (bonus_levels + bonus_candles + bonus_onchain
                                         + penalties))
    IN  [base_confidence2 |-> a.base2,
         bonus_levels |-> bonus_levels,
         bonus_candles |-> bonus_candles,
         bonus_onchain |-> bonus_onchain,
         penalties |-> penalties,
         final_score |-> final_score,
         classification |-> Classify(final_score)]

-----------------------------------------------------------------------------
(* levels/level_scorer.py *)

\* score_level counting a touch 30 days ago as recent
ScoreLevelRecent30(level) ==
    Min2(  Min2(level.touch_count * 2, 8)
         + (IF level.visible_in_timeframes >= 3 THEN 4
            ELSE IF level.visible_in_timeframes >= 2 THEN 2 ELSE 0)
         + (IF level.coincides_with_fib THEN 3 ELSE 0)
         + (IF level.is_role_flip THEN 3 ELSE 0)
         + (IF level.is_high_volume_zone THEN 2 ELSE 0)
         + (IF level.is_psychological THEN 1 ELSE 0)
         + (IF level.last_touch_days <= 30 THEN 1 ELSE 0),
         20)

\* score_level
ScoreLevel(level) ==
    Min2(  Min2(level.touch_count * 2, 8)
         + (IF level.visible_in_timeframes >= 3 THEN 4
            ELSE IF level.visible_in_timeframes >= 2 THEN 2 ELSE 0)
         + If(level.coincides_with_fib, 3)
         + If(level.is_role_flip, 3)
         + If(level.is_high_volume_zone, 2)
         + If(level.is_psychological, 1)
         + If(level.last_touch_days < 30, 1),
         20)

\* classify_level with strict comparisons
ClassifyLevelStrict(score) ==
    IF score > 15 THEN "critical"
    ELSE IF score > 10 THEN "strong"
    ELSE IF score > 5 THEN "moderate"
    ELSE "weak"

\* classify_level
ClassifyLevel(score) ==
    IF score >= 15 THEN "critical"
    ELSE IF score >= 10 THEN "strong"
    ELSE IF score >= 5 THEN "moderate"
    ELSE "weak"

-----------------------------------------------------------------------------
(* Arguments the calls are drawn from.  Prices are in quanta; with res = 1 a *)
(* quantum is one currency unit, with res = 1000 a thousandth of one.       *)

MaxLevels == 2

MaxSwings == 1

Callers == {1, 2}

Level(price, type, strength) == [price |-> price, type |-> type, strength |-> strength]

Swing(price, type) == [price |-> price, type |-> type]

Fib(ratio, price) == [ratio |-> ratio, price |-> price]

LevelPool ==
    { Level(99200, "support", 12), Level(97500, "support", 8),
      Level(100900, "resistance", 12), Level(103000, "resistance", 9) }

SwingPool == { Swing(99400, "low"), Swing(100700, "high") }

FibChoices ==
    { NoFibs,
      [retracements |-> << Fib(618, 99800), Fib(786, 99100) >>,
       extensions |-> << Fib(1272, 100900), Fib(1618, 103200) >>],
      [retracements |-> << Fib(786, 100800) >>,
       extensions |-> << Fib(1272, 99200), Fib(1618, 97200) >>] }

BBChoices ==
    { NoBB,
      [upper |-> 101500, mid |-> 100400, lower |-> 98800],
      [upper |-> 101200, mid |-> 99600, lower |-> 98500] }

Timeframes == {"1H", "4H", "1D", "1W", "15m"}

Directions == {"LONG", "SHORT"}

UpTo(S, n) == {X \in SUBSET S : Cardinality(X) <= n}

\* Integer-valued arguments and a dyadic min_rr make every floating-point step
\* of the R:R test exact, so the comparison cannot come out low.
FloatExact(res, min_rr) == res = 1 /\ min_rr \in {15, 20, 25, 30, 40}

ArgsOver(ress, entries, atrs, tfs, bbs, levelSets, fibss, swingSets) ==
    { a \in [res : ress, entry : entries, direction : Directions, timeframe : tfs,
             atr : atrs, atr_exp : {0}, bb : bbs, levels : levelSets, fibs : fibss,
             swing_points : swingSets, fp1 : BOOLEAN, fp2 : BOOLEAN] :
        /\ FloatExact(a.res, MIN_RR_TP1(a.timeframe)) => ~a.fp1
        /\ FloatExact(a.res, MIN_RR_TP2(a.timeframe)) => ~a.fp2 }

\* An ATR of 10^-13: positive, and with it 1.5 buffers are less than half the
\* spacing of the prices.
AtrTinyExp == 13

TinyAtrArgs ==
    { [a EXCEPT !.atr_exp = AtrTinyExp] :
        a \in ArgsOver({1}, {100000}, {1}, Timeframes, BBChoices,
                       UpTo(LevelPool, MaxLevels), FibChoices, UpTo(SwingPool, MaxSwings)) }

CalcArgs ==
    ArgsOver({1, 1000}, {100000}, {0, 1, 1000, 3000}, Timeframes, BBChoices,
             UpTo(LevelPool, MaxLevels), FibChoices, UpTo(SwingPool, MaxSwings))
    \cup TinyAtrArgs

-----------------------------------------------------------------------------
(* Actions *)

NoCall == [fn |-> "none"]

IdleRest ==
    /\ scan = [called |-> FALSE]
    /\ lvl = [scored |-> FALSE]
    /\ call = NoCall

\* A caller runs calculate() to completion.
Calculate(c) ==
    /\ frame[c].pc = "call"
    /\ \E r \in RunCalculate(inst, frame[c].a) :
           /\ inst' = r.inst
           /\ frame' = [frame EXCEPT ![c] = r.fr]
    /\ UNCHANGED <<scan, lvl, call>>

\* One call of calculate() on a fresh instance, for every argument tuple.
InitCalc ==
    /\ inst = FreshInstance
    /\ \E a \in CalcArgs :
          frame = [c \in Callers |-> IF c = 1 THEN CallFrame(a, FreshInstance) ELSE IdleFrame]
    /\ IdleRest

NextCalc == Calculate(1)

SpecCalc == InitCalc /\ [][NextCalc]_vars

\* Repeated calls on one instance, one after the other.
RepeatArgs ==
    ArgsOver({1}, {100000}, {0, 1000, 3000}, {"1H", "1D"},
             {NoBB, [upper |-> 101500, mid |-> 100400, lower |-> 98800]},
             UpTo(LevelPool, 1),
             {f \in FibChoices : FindFibRetracement(f, 786) < 100000},
             {{}})

Invoke(c, a) ==
    /\ frame[c].pc \in {"idle", "done"}
    /\ frame' = [frame EXCEPT ![c] = CallFrame(a, inst)]
    /\ UNCHANGED <<inst, scan, lvl, call>>

InitIdle ==
    /\ inst = FreshInstance
    /\ frame = [c \in Callers |-> IdleFrame]
    /\ IdleRest

NextRepeat ==
    \/ \E a \in RepeatArgs : Invoke(1, a)
    \/ Calculate(1)

SpecRepeat == InitIdle /\ [][NextRepeat]_vars

\* Two calls on one instance whose steps interleave: each of lines 77-95
\* (stop loss), 97-108 (TP1), 110-121 (TP2) and 123-139 (the result) runs
\* without interruption, and the other call may run between them.
ConcurrentArgs ==
    ArgsOver({1}, {100000}, {1000}, {"1D"}, {NoBB},
             {{}, {Level(99200, "support", 12)}}, {NoFibs},
             {{}, {Swing(100700, "high")}})

StepSl(c) ==
    /\ frame[c].pc = "call"
    /\ \E r \in SlStep(inst, frame[c]) :
           /\ inst' = r.inst
           /\ frame' = [frame EXCEPT ![c] = r.fr]
    /\ UNCHANGED <<scan, lvl, call>>

StepTp1(c) ==
    /\ frame[c].pc = "tp1"
    /\ LET r == Tp1Step(inst, frame[c])
       IN  /\ inst' = r.inst
           /\ frame' = [frame EXCEPT ![c] = r.fr]
    /\ UNCHANGED <<scan, lvl, call>>

StepTp2(c) ==
    /\ frame[c].pc = "tp2"
    /\ LET r == Tp2Step(inst, frame[c])
       IN  /\ inst' = r.inst
           /\ frame' = [frame EXCEPT ![c] = r.fr]
    /\ UNCHANGED <<scan, lvl, call>>

StepReturn(c) ==
    /\ frame[c].pc = "ret"
    /\ \E r \in ReturnStep(inst, frame[c]) :
           /\ inst' = r.inst
           /\ frame' = [frame EXCEPT ![c] = r.fr]
    /\ UNCHANGED <<scan, lvl, call>>

InitConcurrent ==
    /\ inst = FreshInstance
    /\ \E a1 \in ConcurrentArgs, a2 \in ConcurrentArgs :
          frame = [c \in Callers |->
                     CallFrame(IF c = 1 THEN a1 ELSE a2, FreshInstance)]
    /\ IdleRest

NextConcurrent ==
    \E c \in Callers : StepSl(c) \/ StepTp1(c) \/ StepTp2(c) \/ StepReturn(c)

SpecConcurrent == InitConcurrent /\ [][NextConcurrent]_vars

-----------------------------------------------------------------------------
(* One call of ExtendedSignalScorer.calculate for every argument tuple.  The *)
(* scorer holds no state of its own.                                         *)

MaxScorerLevels == 2

ScLevel(price, strength, is_role_flip, is_psychological) ==
    [price |-> price, strength |-> strength, is_role_flip |-> is_role_flip,
     is_psychological |-> is_psychological]

CandlePattern(direction, strength) == [direction |-> direction, strength |-> strength]

\* all within 1% of the price 100000
ScorerLevelPool ==
    {ScLevel(100500, 12, TRUE, TRUE), ScLevel(99500, 8, FALSE, FALSE),
     ScLevel(100300, 10, FALSE, FALSE)}

ScorerFibChoices ==
    {NoFibs,
     [retracements |-> <<Fib(618, 100200)>>, extensions |-> <<>>],
     [retracements |-> <<Fib(382, 99900)>>, extensions |-> <<>>],
     [retracements |-> <<Fib(382, 99900), Fib(650, 100900)>>, extensions |-> <<>>],
     [retracements |-> <<Fib(382, 99900), Fib(618, 101100)>>, extensions |-> <<>>],
     [retracements |-> <<Fib(618, 98900), Fib(500, 98000)>>, extensions |-> <<>>]}

ConfluenceChoices ==
    {<<>>, <<[price |-> 100100, num_timeframes |-> 2]>>}

PatternPool == {CandlePattern("LONG", 8), CandlePattern("SHORT", 5)}

NoOnchain == [fear_greed |-> {}, funding_rate |-> {}, oi_change_pct |-> {}]

OnchainChoices ==
    {NoOnchain,
     [fear_greed |-> {10}, funding_rate |-> {-4}, oi_change_pct |-> {-20}],
     [fear_greed |-> {90}, funding_rate |-> {6}, oi_change_pct |-> {}],
     [fear_greed |-> {50}, funding_rate |-> {0}, oi_change_pct |-> {-5}]}

IndicatorChoices ==
    {[volume |-> 0, sma20_volume |-> 0, ema_21 |-> 0],
     [volume |-> 50, sma20_volume |-> 100, ema_21 |-> 90000],
     [volume |-> 150, sma20_volume |-> 100, ema_21 |-> 100100]}

\* base_confidence -10, 59.5, 60, 120
BaseChoices == {-20, 119, 120, 240}

ScorerArgs ==
    [base2 : BaseChoices, price : {100000}, direction : Directions,
     timeframe : {"1H", "4H"},
     levels : UpTo(ScorerLevelPool, MaxScorerLevels),
     fibs : ScorerFibChoices, confluences : ConfluenceChoices,
     candle_patterns : SUBSET PatternPool,
     onchain : OnchainChoices, indicators : IndicatorChoices,
     htf_direction : {"", "LONG", "SHORT"}]

IdleTpsl ==
    /\ inst = FreshInstance
    /\ frame = [c \in Callers |-> IdleFrame]
    /\ call = NoCall

Score ==
    /\ ~scan.called
    /\ scan' = [called |-> TRUE, a |-> scan.a, result |-> ScorerCalculate(scan.a)]
    /\ UNCHANGED <<inst, frame, lvl, call>>

InitScorer ==
    /\ \E a \in ScorerArgs : scan = [called |-> FALSE, a |-> a]
    /\ lvl = [scored |-> FALSE]
    /\ IdleTpsl

NextScorer == Score

SpecScorer == InitScorer /\ [][NextScorer]_vars

-----------------------------------------------------------------------------
(* Every level is scored once (level_manager.py sets level.strength) and    *)
(* its strength classified.                                                  *)

MaxTouch == 5

MaxVisible == 4

PriceLevel(touch_count, visible_in_timeframes, fib, flip, hvz, psy, last_touch_days) ==
    [touch_count |-> touch_count, visible_in_timeframes |-> visible_in_timeframes,
     coincides_with_fib |-> fib, is_role_flip |-> flip, is_high_volume_zone |-> hvz,
     is_psychological |-> psy, last_touch_days |-> last_touch_days,
     strength |-> 0]

LastTouchChoices == {0, 29, 30, 999}

PriceLevels ==
    {PriceLevel(t, v, f, r, h, p, d) :
        t \in 0..MaxTouch, v \in 1..MaxVisible, f \in BOOLEAN, r \in BOOLEAN,
        h \in BOOLEAN, p \in BOOLEAN, d \in LastTouchChoices}

ScoreAndClassify ==
    /\ ~lvl.scored
    /\ LET strength == ScoreLevel(lvl.level)
       IN  lvl' = [scored |-> TRUE,
                   level |-> [lvl.level EXCEPT !.strength = strength],
                   classification |-> ClassifyLevel(strength)]
    /\ UNCHANGED <<inst, frame, scan, call>>

InitLevels ==
    /\ \E level \in PriceLevels : lvl = [scored |-> FALSE, level |-> level]
    /\ scan = [called |-> FALSE]
    /\ IdleTpsl

NextLevels == ScoreAndClassify

SpecLevels == InitLevels /\ [][NextLevels]_vars

-----------------------------------------------------------------------------
(* Sanity of the fixed-point representation: nothing was truncated. *)

Returned(c) == frame[c].pc = "done"

ExactArithmetic ==
    \A c \in Callers : Returned(c) /\ frame[c].result.valid =>
        /\ frame[c].risk % 5 = 0
        /\ (frame[c].risk * MIN_RR_TP1(frame[c].a.timeframe)) % 10 = 0
        /\ (frame[c].risk * MIN_RR_TP2(frame[c].a.timeframe)) % 10 = 0

-----------------------------------------------------------------------------
(* Claims about EnhancedTPSL.calculate, one call on a fresh instance        *)
(* (SpecCalc).  Returned prices are hundredths of a currency unit; a.entry  *)
(* is in quanta, res to the unit, so  p / 100 < entry / res  is written     *)
(* p * res < entry * 100.                                                   *)

Res(c) == frame[c].result

Args(c) == frame[c].a

ValidReturn(c) == Returned(c) /\ Res(c).valid

\* C1: every valid result has sl < entry < tp1 < tp2 for LONG and
\* sl > entry > tp1 > tp2 for SHORT, on the prices it returns.
C1_ReturnedPricesOrdered ==
    \A c \in Callers : ValidReturn(c) =>
        LET r == Res(c)
            entry == Args(c).entry * 100
            k == Args(c).res
        IN  IF Args(c).direction = "LONG"
            THEN r.sl * k < entry /\ entry < r.tp1 * k /\ r.tp1 < r.tp2
            ELSE r.sl * k > entry /\ entry > r.tp1 * k /\ r.tp1 > r.tp2

\* The same ordering holds of the prices before round(., 2) is applied to them.
C1_UnroundedPricesOrdered ==
    \A c \in Callers : ValidReturn(c) =>
        LET f == frame[c]
            e == V(f.a.entry)
        IN  IF f.a.direction = "LONG"
            THEN f.sl < e /\ e < f.tp1 /\ f.tp1 < f.tp2
            ELSE f.sl > e /\ e > f.tp1 /\ f.tp1 > f.tp2

C3_Scenario(c) ==
    /\ Returned(c)
    /\ Args(c).res = 1 /\ Args(c).entry = 100000 /\ Args(c).atr = 1000
    /\ Args(c).direction = "LONG" /\ Args(c).timeframe = "1D"
    /\ Args(c).levels = {} /\ Args(c).fibs = NoFibs
    /\ Args(c).swing_points = {} /\ Args(c).bb = NoBB

\* C3, as claimed: buffer 2000, sl 98500 (1.5 %), tp1 102250, tp2 104500, all
\* three tags atr_fallback.
C3_AsClaimed ==
    \A c \in Callers : C3_Scenario(c) =>
        /\ Res(c).valid
        /\ frame[c].buffer = V(2000)
        /\ Res(c).sl = 9850000 /\ Res(c).sl_pct = 150
        /\ Res(c).tp1 = 10225000 /\ Res(c).tp2 = 10450000
        /\ Res(c).sl_method = "atr_fallback"
        /\ Res(c).tp1_method = "atr_fallback"
        /\ Res(c).tp2_method = "atr_fallback"

\* C3, amended: buffer 2000, the stop 1.5 buffers away: sl 97000 (3.0 %),
\* tp1 104500, tp2 109000, all three tags atr_fallback.
C3_ScenarioResult ==
    \A c \in Callers : C3_Scenario(c) =>
        /\ Res(c).valid
        /\ frame[c].buffer = V(2000)
        /\ Res(c).sl = 9700000 /\ Res(c).sl_pct = 300
        /\ Res(c).tp1 = 10450000 /\ Res(c).tp2 = 10900000
        /\ Res(c).sl_method = "atr_fallback"
        /\ Res(c).tp1_method = "atr_fallback"
        /\ Res(c).tp2_method = "atr_fallback"

C3_Witness == C3_Scenario(1)

\* The ATR-only stop, 1.5 buffers from entry, is beyond the timeframe's cap
\* (written from the numbers of the claim: buffer multipliers 1.0 / 1.5 / 2.0 /
\* 2.5, caps 2 / 4 / 7 / 12, the defaults 1.5 and 4 for any other timeframe).
FallbackBeyondCap(a) ==
    LET mult == CASE a.timeframe = "1H" -> 10 [] a.timeframe = "1D" -> 20
                  [] a.timeframe = "1W" -> 25 [] OTHER -> 15
        cap == CASE a.timeframe = "1H" -> 2 [] a.timeframe = "1D" -> 7
                 [] a.timeframe = "1W" -> 12 [] OTHER -> 4
    IN  a.atr * mult * 15 > cap * a.entry

MaxPctShown == 30

\* "SL <p>% exceeds max <cap>%", p with one decimal, for the cap of timeframe tf.
SlExceedsTexts(tf) ==
    LET cap == CASE tf = "1H" -> "2.0" [] tf = "1D" -> "7.0" [] tf = "1W" -> "12.0"
                 [] OTHER -> "4.0"
    IN  {"SL " \o ToString(n) \o "." \o ToString(d) \o "% exceeds max " \o cap \o "%"
           : n \in 0..MaxPctShown, d \in 0..9}

-----------------------------------------------------------------------------
(* Claims about the instance's _last_*_method fields *)

\* What calculate(a) can return on a freshly constructed instance.
FreshResults(a) == {r.fr.result : r \in RunCalculate(FreshInstance, a)}

\* C5: whatever calls came before on the same instance, a call returns what the
\* same call returns on a fresh instance (SpecRepeat).
C5_SameAsOnFreshInstance ==
    \A c \in Callers : Returned(c) => Res(c) \in FreshResults(Args(c))

\* A valid call on an instance that held other tags, left by earlier calls.
C5_Witness ==
    /\ ValidReturn(1)
    /\ frame[1].prior.last_sl_method \notin {"", Res(1).sl_method}
    /\ frame[1].prior.last_tp1_method \notin {"", Res(1).tp1_method}
    /\ frame[1].prior.last_tp2_method \notin {"", Res(1).tp2_method}

\* C6: when two calls on one instance interleave, each returns the tags of
\* its own selections, those it returns when run alone (SpecConcurrent).
C6_OwnTagsReturned ==
    \A c \in Callers : ValidReturn(c) =>
        \E r \in FreshResults(Args(c)) :
            /\ r.valid
            /\ Res(c).sl_method = r.sl_method
            /\ Res(c).tp1_method = r.tp1_method
            /\ Res(c).tp2_method = r.tp2_method

-----------------------------------------------------------------------------
(* Claims about ExtendedSignalScorer.calculate (SpecScorer) *)

\* C7: the level bonus is in 0..20, the candle and on-chain bonuses in 0..10,
\* the penalties in -15..0, and final_score is the rounded sum of
\* base_confidence and the four returned components, clamped into 0..100.
C7_ComponentsBoundedAndSummed ==
    scan.called =>
        LET r == scan.result
            raw2 == scan.a.base2
                    + 2 * (r.bonus_levels + r.bonus_candles + r.bonus_onchain + r.penalties)
            rounded == RoundHalfEven(raw2, 2)
        IN  /\ r.bonus_levels \in 0..20
            /\ r.bonus_candles \in 0..10
            /\ r.bonus_onchain \in 0..10
            /\ r.penalties \in -15..0
            /\ r.final_score = (IF rounded < 0 THEN 0 ELSE IF rounded > 100 THEN 100 ELSE rounded)

\* Every cap is reached by raw totals beyond it, and the final clamp is at work.
C7_Witness ==
    /\ scan.called
    /\ scan.result.bonus_levels = 20
    /\ scan.result.bonus_candles = 10
    /\ scan.result.bonus_onchain = 10
    /\ scan.result.final_score = 100
    /\ scan.a.base2 + 2 * 40 > 200

NearStrong(a) == {lv \in a.levels : ScorerNear(a.price, lv.price, 10) /\ lv.strength >= 10}

\* The scenario of C8: base 60, exactly one level of strength >= 10 within 1%
\* of price, nothing else supplied, no penalty triggered.
C8_Scenario ==
    /\ scan.called
    /\ scan.a.base2 = 120
    /\ Cardinality(NearStrong(scan.a)) = 1
    /\ scan.a.fibs = NoFibs
    /\ scan.a.confluences = <<>>
    /\ scan.a.candle_patterns = {}
    /\ scan.a.onchain = NoOnchain
    /\ scan.result.penalties = 0

\* C8 as stated: the scenario returns bonus_levels 8, final_score 68, STRONG.
C8_AsClaimed ==
    C8_Scenario =>
        /\ scan.result.bonus_levels = 8
        /\ scan.result.final_score = 68
        /\ scan.result.classification = "STRONG"

\* C8: in the scenario, the level being neither a role flip nor psychological
\* and no other such level within 1%, calculate returns bonus_levels 8,
\* final_score 68 and classification VALID.
C8_ScenarioResult ==
    C8_Scenario
    /\ (\A lv \in scan.a.levels :
           ScorerNear(scan.a.price, lv.price, 10) => ~lv.is_role_flip /\ ~lv.is_psychological)
    =>  /\ scan.result.bonus_levels = 8
        /\ scan.result.final_score = 68
        /\ scan.result.classification = "VALID"

C8_Witness ==
    /\ C8_Scenario
    /\ scan.a.levels = {ScLevel(100300, 10, FALSE, FALSE)}
    /\ scan.result.final_score = 68

-----------------------------------------------------------------------------
(* Claims about score_level and classify_level (SpecLevels) *)

\* C9: the strength of every level with touch_count >= 0 is in 0..20, and its
\* classification follows from the strength alone: critical from 15, strong
\* from 10 to 14, moderate from 5 to 9, weak below 5.
C9_StrengthBoundedAndClassified ==
    lvl.scored /\ lvl.level.touch_count >= 0 =>
        /\ lvl.level.strength \in 0..20
        /\ lvl.classification =
              (CASE lvl.level.strength >= 15 -> "critical"
                 [] lvl.level.strength \in 10..14 -> "strong"
                 [] lvl.level.strength \in 5..9 -> "moderate"
                 [] lvl.level.strength < 5 -> "weak")

\* A level whose factors add up to more than 20.
C9_Witness ==
    /\ lvl.scored
    /\ lvl.level.strength = 20
    /\ lvl.level.touch_count = 4
    /\ lvl.level.last_touch_days = 999
    /\ lvl.classification = "critical"

Indicator(b) == IF b THEN 1 ELSE 0

FactorSum(level) ==
      (IF 2 * level.touch_count < 8 THEN 2 * level.touch_count ELSE 8)
    + (IF level.visible_in_timeframes >= 3 THEN 4
       ELSE IF level.visible_in_timeframes >= 2 THEN 2 ELSE 0)
    + 3 * Indicator(level.coincides_with_fib)
    + 3 * Indicator(level.is_role_flip)
    + 2 * Indicator(level.is_high_volume_zone)
    + 1 * Indicator(level.is_psychological)
    + 1 * Indicator(level.last_touch_days < 30)

AllFactors(level) ==
    /\ level.touch_count = 5
    /\ level.visible_in_timeframes = 3
    /\ level.coincides_with_fib /\ level.is_role_flip /\ level.is_high_volume_zone
    /\ level.is_psychological /\ level.last_touch_days < 30

\* C10: the strength is the sum of the seven factors, at most 20; a level
\* with touch_count 5, 3 timeframes and all five flags sums to 22, gets
\* strength 20 and is critical.
C10_FactorSum ==
    lvl.scored =>
        /\ lvl.level.strength =
              (IF FactorSum(lvl.level) < 20 THEN FactorSum(lvl.level) ELSE 20)
        /\ AllFactors(lvl.level) =>
              /\ FactorSum(lvl.level) = 22
              /\ lvl.level.strength = 20
              /\ lvl.classification = "critical"

C10_Witness ==
    lvl.scored /\ AllFactors(lvl.level) /\ lvl.level.strength = 20

-----------------------------------------------------------------------------
-----------------------------------------------------------------------------
(* Stateless functions.  Each has a specification of its own in which one   *)
(* call is made: call holds the arguments, then the arguments and the       *)
(* result; the components above stay idle.                                  *)

IdleOld ==
    /\ inst = FreshInstance
    /\ frame = [c \in Callers |-> IdleFrame]
    /\ scan = [called |-> FALSE]
    /\ lvl = [scored |-> FALSE]

\* The sequences without repetition of at most n elements of S.
SeqsUpTo(S, n) ==
    UNION { {s \in [1..k -> S] : \A i, j \in 1..k : i # j => s[i] # s[j]} : k \in 0..n }

RECURSIVE SumPrices(_)
SumPrices(levels) ==
    IF levels = <<>> THEN 0 ELSE Head(levels).price + SumPrices(Tail(levels))

-----------------------------------------------------------------------------
(* fibonacci/confluence_detector.py.  Prices are integers, in hundredths    *)
(* (the Fibonacci engine rounds every level price to 2 decimals).           *)

\* DEFAULT_TOLERANCE_PCT, in tenths of a percent
DEFAULT_TOLERANCE_PCT == 5

\* One entry of fib_data, in the insertion order of the dict.
FibEntry(tf, direction, retracements, extensions) ==
    [tf |-> tf, direction |-> direction, retracements |-> retracements, extensions |-> extensions]

CollectedLevel(l, quality, e, type) ==
    [price |-> l.price, ratio |-> l.ratio, label |-> l.label, entry_quality |-> quality,
     timeframe |-> e.tf, direction |-> e.direction, type |-> type]

\* _collect_levels: per timeframe the retracements, then the extensions.
RECURSIVE CollectLevels(_)
CollectLevels(fib_data) ==
    IF fib_data = <<>> THEN <<>>
    ELSE LET e == Head(fib_data)
         IN    [i \in 1..Len(e.retracements) |->
                    CollectedLevel(e.retracements[i], e.retracements[i].entry_quality,
                                   e, "retracement")]
            \o [i \in 1..Len(e.extensions) |->
                    CollectedLevel(e.extensions[i], 0, e, "extension")]
            \o CollectLevels(Tail(fib_data))

\* sorted(levels, key=price): stable, ascending.
RECURSIVE InsertByPrice(_, _)
InsertByPrice(lv, sorted) ==
    IF sorted = <<>> \/ lv.price < Head(sorted).price THEN <<lv>> \o sorted
    ELSE <<Head(sorted)>> \o InsertByPrice(lv, Tail(sorted))

RECURSIVE SortedByPrice(_)
SortedByPrice(levels) ==
    IF levels = <<>> THEN <<>>
    ELSE InsertByPrice(levels[Len(levels)], SortedByPrice(SubSeq(levels, 1, Len(levels) - 1)))

\* pct_diff <= tolerance_pct, with pct_diff = abs(candidate - base) / base * 100
\* (base # 0; a negative base makes pct_diff negative).  The levels below put
\* no candidate exactly on the tolerance.
WithinTolerance(candidate, base, tolerance_pct) ==
    IF base.price < 0 THEN TRUE
    ELSE Abs(candidate.price - base.price) * 1000 <= tolerance_pct * base.price

\* The inner loop over j: the cluster of base and the indices used.
RECURSIVE Sweep(_, _, _, _, _, _)
Sweep(sorted_levels, base, j, cluster, used, tolerance_pct) ==
    IF j > Len(sorted_levels) THEN [cluster |-> cluster, used |-> used]
    ELSE IF j \in used \/ base.price = 0
         THEN Sweep(sorted_levels, base, j + 1, cluster, used, tolerance_pct)
    ELSE IF WithinTolerance(sorted_levels[j], base, tolerance_pct)
         THEN Sweep(sorted_levels, base, j + 1, Append(cluster, sorted_levels[j]),
                    used \cup {j}, tolerance_pct)
    ELSE [cluster |-> cluster, used |-> used]

UniqueTfs(cluster) == {cluster[k].timeframe : k \in 1..Len(cluster)}

\* Every cluster is kept, whatever its timeframes
KeepClusterAny(cluster) == TRUE

\* "if len(unique_tfs) < 2: continue"
KeepCluster(cluster) == Cardinality(UniqueTfs(cluster)) >= 2

\* The values of round(sum / len, 2), in hundredths.
AvgPrices(cluster) == RoundSet(SumPrices(cluster), Len(cluster), FALSE)

MaxQuality(cluster) ==
    CHOOSE q \in {cluster[k].entry_quality : k \in 1..Len(cluster)} :
        \A k \in 1..Len(cluster) : cluster[k].entry_quality <= q

\* The dict appended for a cluster, but for its price; list({...}) has no
\* defined order and sorted(ratios) is the ascending list of a set, so each is
\* the set.  cluster is the local variable the dict was built from.
Confluence(cluster) ==
    [timeframes |-> UniqueTfs(cluster),
     fib_ratios |-> {cluster[k].ratio : k \in 1..Len(cluster)},
     fib_labels |-> {cluster[k].label : k \in 1..Len(cluster)},
     directions |-> {cluster[k].direction : k \in 1..Len(cluster)},
     num_timeframes |-> Cardinality(UniqueTfs(cluster)),
     max_quality |-> MaxQuality(cluster),
     cluster |-> cluster]

\* _cluster_levels: the outer loop over i.
RECURSIVE ClusterLevels(_, _, _, _, _)
ClusterLevels(sorted_levels, i, used, confluences, tolerance_pct) ==
    IF i > Len(sorted_levels) THEN confluences
    ELSE IF i \in used
         THEN ClusterLevels(sorted_levels, i + 1, used, confluences, tolerance_pct)
    ELSE LET sw == Sweep(sorted_levels, sorted_levels[i], i + 1, <<sorted_levels[i]>>,
                         used \cup {i}, tolerance_pct)
         IN  ClusterLevels(sorted_levels, i + 1, sw.used,
                           IF KeepCluster(sw.cluster)
                           THEN Append(confluences, Confluence(sw.cluster))
                           ELSE confluences,
                           tolerance_pct)

\* confluences.sort(key=(num_timeframes, max_quality), reverse=True): stable.
KeyGreater(x, y) ==
    \/ x.num_timeframes > y.num_timeframes
    \/ x.num_timeframes = y.num_timeframes /\ x.max_quality > y.max_quality

RECURSIVE InsertByKey(_, _)
InsertByKey(c, sorted) ==
    IF sorted = <<>> \/ KeyGreater(c, Head(sorted)) THEN <<c>> \o sorted
    ELSE <<Head(sorted)>> \o InsertByKey(c, Tail(sorted))

RECURSIVE SortedByKey(_)
SortedByKey(confluences) ==
    IF confluences = <<>> THEN <<>>
    ELSE InsertByKey(confluences[Len(confluences)],
                     SortedByKey(SubSeq(confluences, 1, Len(confluences) - 1)))

\* find_confluences, but for the prices: the confluences in the order returned.
FindConfluencesUnpriced(fib_data, tolerance_pct) ==
    LET all_levels == CollectLevels(fib_data)
    IN  IF Len(all_levels) < 2 THEN <<>>
        ELSE SortedByKey(ClusterLevels(SortedByPrice(all_levels), 1, {}, <<>>, tolerance_pct))

\* The lists find_confluences can return.
FindConfluencesResults(fib_data, tolerance_pct) ==
    LET cs == FindConfluencesUnpriced(fib_data, tolerance_pct)
        prices == UNION {AvgPrices(cs[k].cluster) : k \in 1..Len(cs)}
    IN  { [k \in 1..Len(cs) |->
              [price |-> pr[k], timeframes |-> cs[k].timeframes,
               fib_ratios |-> cs[k].fib_ratios, fib_labels |-> cs[k].fib_labels,
               directions |-> cs[k].directions, num_timeframes |-> cs[k].num_timeframes,
               max_quality |-> cs[k].max_quality, cluster |-> cs[k].cluster]] :
          pr \in {f \in [1..Len(cs) -> prices] :
                     \A k \in 1..Len(cs) : f[k] \in AvgPrices(cs[k].cluster)} }

\* Argument domain
MaxRetr == 1

MaxExt == 1

FibLevel(price, ratio, quality) ==
    [price |-> price, ratio |-> ratio, label |-> ToString(ratio), entry_quality |-> quality]

FibExt(price, ratio) == [price |-> price, ratio |-> ratio, label |-> ToString(ratio)]

RetrPool == { FibLevel(1000000, 382, 5), FibLevel(1000100, 618, 10), FibLevel(1000301, 500, 7) }

ExtPool ==
    { FibExt(1010000, 1618), FibExt(0, 2618), FibExt(1004900, 1000), FibExt(1008000, 1272) }

FibTfOrders == { <<"1H", "4H", "1D">>, <<"1D", "4H", "1H">> }

\* The analyses a timeframe can have; "absent": fib_data has no such key.
TfAnalyses ==
    [present : {TRUE}, direction : Directions,
     retracements : SeqsUpTo(RetrPool, MaxRetr), extensions : SeqsUpTo(ExtPool, MaxExt)]
    \cup {[present |-> FALSE]}

RECURSIVE FibDataOf(_, _)
FibDataOf(order, an) ==
    IF order = <<>> THEN <<>>
    ELSE LET tf == Head(order)
             rest == FibDataOf(Tail(order), an)
         IN  IF an[tf].present
             THEN <<FibEntry(tf, an[tf].direction, an[tf].retracements, an[tf].extensions)>>
                  \o rest
             ELSE rest

FibDatas ==
    { FibDataOf(order, an) : order \in FibTfOrders, an \in [{"1H", "4H", "1D"} -> TfAnalyses] }

FindConfluences ==
    /\ call.fn = "find_confluences"
    /\ ~call.returned
    /\ \E result \in FindConfluencesResults(call.fib_data, DEFAULT_TOLERANCE_PCT) :
           call' = [call EXCEPT !.returned = TRUE, !.result = result]
    /\ UNCHANGED <<inst, frame, scan, lvl>>

InitConfluence ==
    /\ \E fib_data \in FibDatas :
           call = [fn |-> "find_confluences", fib_data |-> fib_data,
                   returned |-> FALSE, result |-> <<>>]
    /\ IdleOld

NextConfluence == FindConfluences

SpecConfluence == InitConfluence /\ [][NextConfluence]_vars

ConfluencesReturned == call.fn = "find_confluences" /\ call.returned

\* C11 as stated: every confluence returned spans at least 2 timeframes, its
\* num_timeframes is the number of distinct timeframes of its members, and its
\* price is exactly the arithmetic mean of its members' prices.
C11_AsClaimed ==
    ConfluencesReturned =>
        \A k \in 1..Len(call.result) :
            LET c == call.result[k]
            IN  /\ c.num_timeframes >= 2
                /\ c.num_timeframes = Cardinality(UniqueTfs(c.cluster))
                /\ c.price * Len(c.cluster) = SumPrices(c.cluster)

\* C11: every confluence returned spans at least 2 timeframes, its
\* num_timeframes is the number of distinct timeframes of its members, its
\* members are collected levels, and its price is the arithmetic mean of its
\* members' prices rounded to 2 decimals (at most half a hundredth away).
C11_MeanRoundedTo2Decimals ==
    ConfluencesReturned =>
        \A k \in 1..Len(call.result) :
            LET c == call.result[k]
                all_levels == CollectLevels(call.fib_data)
            IN  /\ c.num_timeframes >= 2
                /\ c.num_timeframes = Cardinality(UniqueTfs(c.cluster))
                /\ c.timeframes = UniqueTfs(c.cluster)
                /\ \A m \in 1..Len(c.cluster) :
                       \E n \in 1..Len(all_levels) : all_levels[n] = c.cluster[m]
                /\ 2 * Abs(c.price * Len(c.cluster) - SumPrices(c.cluster)) <= Len(c.cluster)

\* A confluence of three timeframes whose mean is not a whole hundredth, next
\* to a level left out because it stands alone.
C11_Witness ==
    /\ ConfluencesReturned
    /\ Len(CollectLevels(call.fib_data)) = 4
    /\ Len(call.result) = 1
    /\ call.result[1].num_timeframes = 3
    /\ Len(call.result[1].cluster) = 3
    /\ call.result[1].price * 3 # SumPrices(call.result[1].cluster)

-----------------------------------------------------------------------------
(* levels/swing_detector.py.  A bar is its high and its low; the date of a  *)
(* bar is its position (prices_df is sorted by date).  percent_move, which  *)
(* detect_swings computes from the closes after the bar, is not modelled:   *)
(* a SwingPoint here is its bar, type and price.                            *)

\* PIVOT_BARS (.get default 10)
PIVOT_BARS(tf) ==
    CASE tf = "1H" -> 5 [] tf = "4H" -> 7 [] tf = "1D" -> 10 [] tf = "1W" -> 5
      [] OTHER -> 10

Bar(high, low) == [high |-> high, low |-> low]

\* The swing-high test with "highs[j] >= highs[i]"
IsSwingHighNonStrict(bars, i, n) ==
    \A j \in (i - n)..(i + n) : j # i => ~(bars[j].high >= bars[i].high)

\* No other bar of [i - n, i + n] has a strictly greater high.
IsSwingHigh(bars, i, n) ==
    \A j \in (i - n)..(i + n) : j # i => ~(bars[j].high > bars[i].high)

\* No other bar of [i - n, i + n] has a strictly lesser low.
IsSwingLow(bars, i, n) ==
    \A j \in (i - n)..(i + n) : j # i => ~(bars[j].low < bars[i].low)

SwingPoint(price, type, date, timeframe) ==
    [price |-> price, type |-> type, date |-> date, timeframe |-> timeframe]

\* The loop over i (here 1-based: n + 1 .. total - n): per bar the swing high,
\* then the swing low.
RECURSIVE SwingsFrom(_, _, _, _)
SwingsFrom(timeframe, bars, i, n) ==
    IF i > Len(bars) - n THEN <<>>
    ELSE   (IF IsSwingHigh(bars, i, n)
            THEN <<SwingPoint(bars[i].high, "high", i, timeframe)>> ELSE <<>>)
        \o (IF IsSwingLow(bars, i, n)
            THEN <<SwingPoint(bars[i].low, "low", i, timeframe)>> ELSE <<>>)
        \o SwingsFrom(timeframe, bars, i + 1, n)

DetectSwings(timeframe, bars) ==
    LET n == PIVOT_BARS(timeframe)
    IN  IF Len(bars) < 2 * n + 1 THEN <<>> ELSE SwingsFrom(timeframe, bars, n + 1, n)

\* The series reversed in time and price-mirrored: the mirrored high is the
\* negated low, the mirrored low the negated high.
Mirrored(bars) ==
    [k \in 1..Len(bars) |-> Bar(-bars[Len(bars) + 1 - k].low, -bars[Len(bars) + 1 - k].high)]

\* Argument domain
MinBars == 10

MaxBars == 11

BarShapes == { Bar(3, 1), Bar(2, 0), Bar(3, 0) }

SwingTimeframes == {"1H", "1D"}

\* detect_swings on the series given.
DetectOriginal ==
    /\ call.fn = "detect_swings"
    /\ call.pc = "original"
    /\ call' = [call EXCEPT !.pc = "mirrored",
                            !.swings = DetectSwings(call.timeframe, call.bars)]
    /\ UNCHANGED <<inst, frame, scan, lvl>>

\* detect_swings on the mirrored series.
DetectMirrored ==
    /\ call.fn = "detect_swings"
    /\ call.pc = "mirrored"
    /\ call' = [call EXCEPT !.pc = "done",
                            !.mirrored_swings = DetectSwings(call.timeframe, Mirrored(call.bars))]
    /\ UNCHANGED <<inst, frame, scan, lvl>>

InitSwings ==
    /\ \E len \in MinBars..MaxBars, timeframe \in SwingTimeframes :
         \E bars \in [1..len -> BarShapes] :
           call = [fn |-> "detect_swings", pc |-> "original", timeframe |-> timeframe,
                   bars |-> bars, swings |-> <<>>, mirrored_swings |-> <<>>]
    /\ IdleOld

NextSwings == DetectOriginal \/ DetectMirrored

SpecSwings == InitSwings /\ [][NextSwings]_vars

SwingsDone == call.fn = "detect_swings" /\ call.pc = "done"

HasSwing(swings, i, type) == \E k \in 1..Len(swings) : swings[k].date = i /\ swings[k].type = type

-----------------------------------------------------------------------------
(* analysis/backtesting.py: _evaluate_tpsl.  A row of prices is a record    *)
(* with the keys it has; its date is its position in the list, and the      *)
(* hit_at value None is 0.  tp2 = None is 0 (the caller passes None for a   *)
(* missing or zero tp2, and "if tp2" treats both alike).                    *)

\* float(row.get("high", row.get("close", 0)))
RowHigh(row) ==
    IF "high" \in DOMAIN row THEN row.high
    ELSE IF "close" \in DOMAIN row THEN row.close ELSE 0

\* float(row.get("low", row.get("close", 0)))
RowLow(row) ==
    IF "low" \in DOMAIN row THEN row.low
    ELSE IF "close" \in DOMAIN row THEN row.close ELSE 0

\* The LONG branch with the TP1 flag set before the TP2 test
LongRowFlagFirst(sl, tp1, tp2, tp1_hit, high, low) ==
    IF low <= sl THEN "sl_hit"
    ELSE IF tp2 # 0 /\ (tp1_hit \/ high >= tp1) /\ high >= tp2 THEN "tp2_hit"
    ELSE IF high >= tp1 THEN "flag"
    ELSE "next"

\* The LONG branch of the loop body: what one row does.
LongRow(sl, tp1, tp2, tp1_hit, high, low) ==
    IF low <= sl THEN "sl_hit"
    ELSE IF tp2 # 0 /\ tp1_hit /\ high >= tp2 THEN "tp2_hit"
    ELSE IF high >= tp1 THEN "flag"
    ELSE "next"

\* The SHORT branch with a stop that needs the high strictly above it
ShortRowStrictSl(sl, tp1, tp2, tp1_hit, high, low) ==
    IF high > sl THEN "sl_hit"
    ELSE IF tp2 # 0 /\ tp1_hit /\ low <= tp2 THEN "tp2_hit"
    ELSE IF low <= tp1 THEN "flag"
    ELSE "next"

\* The SHORT (else) branch of the loop body.
ShortRow(sl, tp1, tp2, tp1_hit, high, low) ==
    IF high >= sl THEN "sl_hit"
    ELSE IF tp2 # 0 /\ tp1_hit /\ low <= tp2 THEN "tp2_hit"
    ELSE IF low <= tp1 THEN "flag"
    ELSE "next"

Outcome(outcome, hit_at) == [outcome |-> outcome, hit_at |-> hit_at]

\* The loop from row k on, and the two returns after it.
RECURSIVE EvaluateFrom(_, _, _, _, _, _, _)
EvaluateFrom(direction, sl, tp1, tp2, prices, k, tp1_hit) ==
    IF k > Len(prices)
    THEN IF tp1_hit THEN Outcome("tp1_hit", 0) ELSE Outcome("pending", 0)
    ELSE LET high == RowHigh(prices[k])
             low == RowLow(prices[k])
             step == IF direction = "LONG"
                     THEN LongRow(sl, tp1, tp2, tp1_hit, high, low)
                     ELSE ShortRow(sl, tp1, tp2, tp1_hit, high, low)
         IN  IF step \in {"sl_hit", "tp2_hit"} THEN Outcome(step, k)
             ELSE EvaluateFrom(direction, sl, tp1, tp2, prices, k + 1,
                               tp1_hit \/ step = "flag")

\* _evaluate_tpsl (entry and signal_dt are not used by it).
EvaluateTpsl(direction, sl, tp1, tp2, prices) ==
    EvaluateFrom(direction, sl, tp1, tp2, prices, 1, FALSE)

\* Price mirroring: every price negated, so high and low swap roles.
MirrorKey(key) == CASE key = "high" -> "low" [] key = "low" -> "high" [] OTHER -> key

MirroredRow(row) == [key \in {MirrorKey(g) : g \in DOMAIN row} |-> -row[MirrorKey(key)]]

MirroredPrices(prices) == [k \in 1..Len(prices) |-> MirroredRow(prices[k])]

OtherDirection(direction) == IF direction = "LONG" THEN "SHORT" ELSE "LONG"

\* Argument domain
MaxRows == 4

HL(high, low) == [high |-> high, low |-> low]

RowShapes ==
    { HL(105, 100), HL(112, 108), HL(108, 104), HL(125, 115), HL(100, 95),
      HL(125, 94), HL(92, 88), HL(85, 78), [close |-> 112] }

Targets(sl, tp1, tp2) == [sl |-> sl, tp1 |-> tp1, tp2 |-> tp2]

TargetChoices ==
    { Targets(95, 110, 120), Targets(95, 110, 0), Targets(95, 110, 105),
      Targets(105, 90, 80), Targets(105, 90, 0) }

\* _evaluate_tpsl on the arguments given.
Evaluate ==
    /\ call.fn = "_evaluate_tpsl"
    /\ call.pc = "given"
    /\ call' = [call EXCEPT !.pc = "mirrored",
                   !.result = EvaluateTpsl(call.direction, call.t.sl, call.t.tp1, call.t.tp2,
                                           call.prices)]
    /\ UNCHANGED <<inst, frame, scan, lvl>>

\* _evaluate_tpsl in the other direction on the price-mirrored arguments.
EvaluateMirrored ==
    /\ call.fn = "_evaluate_tpsl"
    /\ call.pc = "mirrored"
    /\ call' = [call EXCEPT !.pc = "done",
                   !.mirrored_result =
                       EvaluateTpsl(OtherDirection(call.direction), -call.t.sl, -call.t.tp1,
                                    -call.t.tp2, MirroredPrices(call.prices))]
    /\ UNCHANGED <<inst, frame, scan, lvl>>

InitEvaluate ==
    /\ \E len \in 0..MaxRows, direction \in Directions, t \in TargetChoices :
         \E prices \in [1..len -> RowShapes] :
           call = [fn |-> "_evaluate_tpsl", pc |-> "given", direction |-> direction,
                   t |-> t, prices |-> prices, result |-> Outcome("", 0),
                   mirrored_result |-> Outcome("", 0)]
    /\ IdleOld

NextEvaluate == Evaluate \/ EvaluateMirrored

SpecEvaluate == InitEvaluate /\ [][NextEvaluate]_vars

Evaluated == call.fn = "_evaluate_tpsl" /\ call.pc # "given"

\* Row k ends a LONG scan: its low is at or under SL, or TP2 is set, an
\* earlier row reached TP1 and its high reaches TP2.
LongReturnRow(k) ==
    \/ RowLow(call.prices[k]) <= call.t.sl
    \/ /\ call.t.tp2 # 0
       /\ \E j \in 1..(k - 1) : RowHigh(call.prices[j]) >= call.t.tp1
       /\ RowHigh(call.prices[k]) >= call.t.tp2

C13_Scenario ==
    /\ call.direction = "LONG"
    /\ call.t = Targets(95, 110, 120)
    /\ call.prices = << HL(105, 100), HL(112, 108), HL(108, 104), HL(125, 115) >>

\* C13: a LONG evaluation returns at the first row that hits SL (low <= SL) or,
\* the TP1 flag being set by an earlier row (high >= TP1), hits TP2 (high >=
\* TP2), with sl_hit taking the row when both apply; with no such row it
\* returns tp1_hit without a row if some row reached TP1, pending otherwise.
\* The scenario of the claim gives tp2_hit at the 4th row.
C13_LongEvaluation ==
    Evaluated /\ call.direction = "LONG" =>
        LET rows == 1..Len(call.prices)
            r == call.result
        IN  /\ \A k \in rows :
                 LongReturnRow(k) /\ (\A j \in 1..(k - 1) : ~LongReturnRow(j)) =>
                    /\ r.hit_at = k
                    /\ r.outcome = IF RowLow(call.prices[k]) <= call.t.sl
                                   THEN "sl_hit" ELSE "tp2_hit"
            /\ (\A k \in rows : ~LongReturnRow(k)) =>
                    /\ r.hit_at = 0
                    /\ r.outcome = IF \E j \in rows : RowHigh(call.prices[j]) >= call.t.tp1
                                   THEN "tp1_hit" ELSE "pending"
            /\ C13_Scenario => r = Outcome("tp2_hit", 4)

C13_Witness ==
    /\ Evaluated
    /\ C13_Scenario
    /\ call.result = Outcome("tp2_hit", 4)

\* C14: a SHORT evaluation returns the outcome and the hit row of the LONG
\* evaluation of the price-mirrored arguments.
C14_ShortMirrorsLong ==
    call.fn = "_evaluate_tpsl" /\ call.pc = "done" /\ call.direction = "SHORT" =>
        call.result = call.mirrored_result

\* A SHORT evaluation that reaches TP1, then TP2 at the 3rd row.
C14_Witness ==
    /\ call.fn = "_evaluate_tpsl" /\ call.pc = "done" /\ call.direction = "SHORT"
    /\ call.t = Targets(105, 90, 80)
    /\ Len(call.prices) = 4
    /\ call.result = Outcome("tp2_hit", 3)
    /\ call.mirrored_result = Outcome("tp2_hit", 3)
    /\ RowHigh(call.prices[4]) >= call.t.sl

-----------------------------------------------------------------------------
(* trading/setup_detector.py.  Prices are whole numbers; ratios are in      *)
(* thousandths; a tolerance is in tenths of a percent.  The texts "name"    *)
(* and "description" of a Setup are formatted from fields modelled here and *)
(* are left out.  The arguments zones and timeframe are not read.           *)

NoSetup == [type |-> "none"]

\* _near: abs(price - level_price) / level_price * 100 <= tolerance_pct; a
\* negative level_price makes the left side negative.  (No argument below is
\* exactly on a tolerance.)
SetupNear(price, level_price, tolerance) ==
    IF level_price = 0 THEN FALSE
    ELSE IF level_price < 0 THEN TRUE
    ELSE Abs(price - level_price) * 1000 <= tolerance * level_price

\* max(items, key=strength): the first item of greatest strength (items # <<>>).
MaxByStrength(items) ==
    LET k == CHOOSE k \in 1..Len(items) :
                 /\ \A m \in 1..Len(items) : items[m].strength <= items[k].strength
                 /\ \A m \in 1..(k - 1) : items[m].strength < items[k].strength
    IN  items[k]

\* indicators.get(key, default)
IndGet(indicators, key, default) ==
    IF key \in DOMAIN indicators THEN indicators[key] ELSE default

\* _has_confirming_pattern: <<the pattern>>, or <<>> for None.
HasConfirmingPattern(patterns, direction) ==
    LET matching == SelectSeq(patterns, LAMBDA p : p.direction = direction /\ p.strength >= 6)
    IN  IF matching = <<>> THEN <<>> ELSE <<MaxByStrength(matching)>>

Retracements(fibs) == IF "retracements" \in DOMAIN fibs THEN fibs.retracements ELSE <<>>

\* _price_near_fib_level: <<the first retracement of one of the ratios near
\* price>>, or <<>> for None.
PriceNearFibLevel(price, fibs, ratios, tolerance) ==
    LET hits == SelectSeq(Retracements(fibs),
                    LAMBDA r : r.ratio \in ratios /\ r.price > 0
                               /\ SetupNear(price, r.price, tolerance))
    IN  IF hits = <<>> THEN <<>> ELSE <<Head(hits)>>

\* _price_near_any_fib
PriceNearAnyFib(price, fibs, tolerance) ==
    LET hits == SelectSeq(Retracements(fibs),
                    LAMBDA r : r.price > 0 /\ SetupNear(price, r.price, tolerance))
    IN  IF hits = <<>> THEN <<>> ELSE <<Head(hits)>>

\* _find_pullback_zone: <<the zone>>, or <<>> for None.  "if fibs" is false
\* for None and for an empty dict, both NoFibs here.
FindPullbackZone(a) ==
    LET golden == IF a.fibs = NoFibs THEN <<>>
                  ELSE PriceNearFibLevel(a.price, a.fibs, {618, 650}, 10)
        strong_levels == SelectSeq(a.levels,
                            LAMBDA lv : lv.strength >= 10 /\ SetupNear(a.price, lv.price, 10))
        any_fib == IF a.fibs = NoFibs THEN <<>> ELSE PriceNearAnyFib(a.price, a.fibs, 10)
    IN  IF golden # <<>> /\ strong_levels # <<>>
        THEN << [zone_type |-> "golden_pocket_plus_level", fib_ratio |-> golden[1].ratio,
                 level_price |-> strong_levels[1].price, fib_price |-> golden[1].price] >>
        ELSE IF strong_levels # <<>>
        THEN << [zone_type |-> "gran_nivel",
                 level_price |-> MaxByStrength(strong_levels).price] >>
        ELSE IF any_fib # <<>>
        THEN << [zone_type |-> "fib_only", fib_ratio |-> any_fib[1].ratio,
                 fib_price |-> any_fib[1].price] >>
        ELSE <<>>

TrendOk(direction, trend) ==
    \/ direction = "LONG" /\ trend \in {"bullish", "strong_bullish"}
    \/ direction = "SHORT" /\ trend \in {"bearish", "strong_bearish"}

\* _detect_pullback
DetectPullback(a) ==
    LET pullback_zone == FindPullbackZone(a)
    IN  IF ~TrendOk(a.direction, a.trend) \/ pullback_zone = <<>> THEN NoSetup
        ELSE [type |-> "pullback", direction |-> a.direction,
              entry_zone |-> pullback_zone[1],
              confirming |-> HasConfirmingPattern(a.candle_patterns, a.direction),
              reliability |->
                  IF pullback_zone[1].zone_type = "golden_pocket_plus_level"
                  THEN "high" ELSE "medium"]

\* volume > sma20_vol * 1.2 (no argument below is exactly on it)
VolumeOk(volume, sma20_vol) == sma20_vol > 0 /\ volume * 10 > sma20_vol * 12

\* _detect_breakout: the setups it can return (round(volume / sma20_vol, 1),
\* in tenths, may fall to either side of a tie).
DetectBreakout(a) ==
    LET volume == IndGet(a.indicators, "volume", 0)
        sma20_vol == IndGet(a.indicators, "sma20_volume", 0)
        broken == IF a.direction = "LONG"
                  THEN SelectSeq(a.levels, LAMBDA lv :
                           /\ lv.type = "resistance" /\ lv.strength >= 6
                           /\ lv.price < a.price /\ SetupNear(a.price, lv.price, 5))
                  ELSE SelectSeq(a.levels, LAMBDA lv :
                           /\ lv.type = "support" /\ lv.strength >= 6
                           /\ lv.price > a.price /\ SetupNear(a.price, lv.price, 5))
    IN  IF ~VolumeOk(volume, sma20_vol) \/ broken = <<>> THEN {NoSetup}
        ELSE { [type |-> "breakout", direction |-> a.direction,
                entry_zone |-> [zone_type |-> "breakout",
                                level_price |-> MaxByStrength(broken).price,
                                volume_multiplier |-> vol_mult],
                reliability |-> "medium"] :
               vol_mult \in RoundSet(volume * 10, sma20_vol, FALSE) }

\* _detect_reversal
DetectReversal(a) ==
    LET confirming == HasConfirmingPattern(a.candle_patterns, a.direction)
        rsi == IndGet(a.indicators, "rsi", 50)
        rsi_extreme == \/ a.direction = "LONG" /\ rsi < 30
                       \/ a.direction = "SHORT" /\ rsi > 70
        nearby == SelectSeq(a.levels,
                      LAMBDA lv : lv.strength >= 8 /\ SetupNear(a.price, lv.price, 10))
        at_fib == a.fibs # NoFibs /\ PriceNearAnyFib(a.price, a.fibs, 10) # <<>>
    IN  IF confirming = <<>> \/ ~rsi_extreme \/ (nearby = <<>> /\ ~at_fib) THEN NoSetup
        ELSE [type |-> "reversal", direction |-> a.direction,
              entry_zone |-> [zone_type |-> "reversal", rsi |-> rsi,
                              pattern |-> confirming[1].pattern],
              level |-> IF nearby = <<>> THEN <<>> ELSE <<MaxByStrength(nearby)>>,
              reliability |-> "low"]

\* detect with the breakout tried before the pullback
DetectBreakoutFirst(a) ==
    IF DetectBreakout(a) # {NoSetup} THEN DetectBreakout(a)
    ELSE IF DetectPullback(a) # NoSetup THEN {DetectPullback(a)}
    ELSE {DetectReversal(a)}

\* detect: the values it can return (a Setup is always true as a condition).
Detect(a) ==
    IF DetectPullback(a) # NoSetup THEN {DetectPullback(a)}
    ELSE IF DetectBreakout(a) # {NoSetup} THEN DetectBreakout(a)
    ELSE {DetectReversal(a)}

\* Argument domain
MaxSetupLevels == 2

SetupLevelPool ==
    { Level(99500, "support", 12), Level(99600, "resistance", 7),
      Level(100400, "support", 6), Level(100800, "resistance", 9),
      Level(97000, "support", 15), Level(0, "support", 12) }

SetupFibChoices ==
    { NoFibs,
      [retracements |-> << Fib(618, 100300) >>],
      [retracements |-> << Fib(382, 99700) >>],
      [retracements |-> << Fib(618, 0), Fib(500, 95000) >>] }

Pattern(pattern, direction, strength) ==
    [pattern |-> pattern, direction |-> direction, strength |-> strength]

SetupPatternChoices ==
    { <<>>, << Pattern("hammer", "LONG", 7) >>, << Pattern("shooting_star", "SHORT", 8) >>,
      << Pattern("doji", "NEUTRAL", 5), Pattern("inverted_hammer", "LONG", 5) >> }

SetupIndicatorChoices ==
    { v @@ r : v \in { <<>>, [volume |-> 150, sma20_volume |-> 100],
                       [volume |-> 115, sma20_volume |-> 100],
                       [volume |-> 150, sma20_volume |-> 0] },
               r \in { <<>>, [rsi |-> 25], [rsi |-> 75] } }

Trends == {"strong_bullish", "bullish", "neutral", "bearish", "strong_bearish"}

SetupArgs ==
    [price : {100000}, direction : Directions, trend : Trends,
     levels : SeqsUpTo(SetupLevelPool, MaxSetupLevels), fibs : SetupFibChoices,
     candle_patterns : SetupPatternChoices, indicators : SetupIndicatorChoices]

DetectSetup ==
    /\ call.fn = "detect"
    /\ ~call.returned
    /\ \E setup \in Detect(call.a) :
           call' = [call EXCEPT !.returned = TRUE, !.setup = setup]
    /\ UNCHANGED <<inst, frame, scan, lvl>>

InitSetup ==
    /\ \E a \in SetupArgs :
           call = [fn |-> "detect", a |-> a, returned |-> FALSE, setup |-> NoSetup]
    /\ IdleOld

NextSetup == DetectSetup

SpecSetup == InitSetup /\ [][NextSetup]_vars

SetupReturned == call.fn = "detect" /\ call.returned

NearSomeLevel(a, min_strength) ==
    \E k \in 1..Len(a.levels) :
        a.levels[k].strength >= min_strength /\ SetupNear(a.price, a.levels[k].price, 10)

NearSomeFib(a) ==
    /\ a.fibs # NoFibs
    /\ \E k \in 1..Len(a.fibs.retracements) :
          /\ a.fibs.retracements[k].price > 0
          /\ SetupNear(a.price, a.fibs.retracements[k].price, 10)

\* Pullback: the trend is aligned with the direction and price is within 1% of
\* a level of strength >= 10 or of a Fibonacci retracement (the Golden Pocket
\* with a strong level is a case of both).
PullbackConditions(a) ==
    /\ \/ a.direction = "LONG" /\ a.trend \in {"bullish", "strong_bullish"}
       \/ a.direction = "SHORT" /\ a.trend \in {"bearish", "strong_bearish"}
    /\ NearSomeLevel(a, 10) \/ NearSomeFib(a)

\* Breakout: volume above 1.2 x its average and price within 0.5% beyond a
\* level of strength >= 6 of the side just crossed.
BreakoutConditions(a) ==
    /\ "volume" \in DOMAIN a.indicators
    /\ a.indicators.sma20_volume > 0
    /\ a.indicators.volume * 10 > a.indicators.sma20_volume * 12
    /\ \E k \in 1..Len(a.levels) :
          LET lv == a.levels[k]
          IN  /\ lv.strength >= 6
              /\ SetupNear(a.price, lv.price, 5)
              /\ \/ a.direction = "LONG" /\ lv.type = "resistance" /\ lv.price < a.price
                 \/ a.direction = "SHORT" /\ lv.type = "support" /\ lv.price > a.price

\* Reversal: a pattern of the direction of strength >= 6, RSI at an extreme,
\* and price within 1% of a level of strength >= 8 or of a retracement.
ReversalConditions(a) ==
    /\ \E k \in 1..Len(a.candle_patterns) :
          a.candle_patterns[k].direction = a.direction /\ a.candle_patterns[k].strength >= 6
    /\ "rsi" \in DOMAIN a.indicators
    /\ \/ a.direction = "LONG" /\ a.indicators.rsi < 30
       \/ a.direction = "SHORT" /\ a.indicators.rsi > 70
    /\ NearSomeLevel(a, 8) \/ NearSomeFib(a)

\* C15: detect returns a pullback whenever the pullback conditions hold, a
\* breakout when they fail and the breakout conditions hold, a reversal when
\* both fail and the reversal conditions hold, None when none holds; a setup
\* returned has the direction of the call.
C15_StrictPriority ==
    SetupReturned =>
        LET a == call.a
            type == call.setup.type
        IN  /\ PullbackConditions(a) => type = "pullback"
            /\ ~PullbackConditions(a) /\ BreakoutConditions(a) => type = "breakout"
            /\ ~PullbackConditions(a) /\ ~BreakoutConditions(a) /\ ReversalConditions(a)
                   => type = "reversal"
            /\ ~PullbackConditions(a) /\ ~BreakoutConditions(a) /\ ~ReversalConditions(a)
                   => call.setup = NoSetup
            /\ call.setup # NoSetup => call.setup.direction = a.direction

\* A pullback returned although the breakout and the reversal conditions hold too.
C15_Witness ==
    /\ SetupReturned
    /\ PullbackConditions(call.a) /\ BreakoutConditions(call.a) /\ ReversalConditions(call.a)
    /\ call.setup.type = "pullback"
    /\ call.setup.direction = "SHORT"

-----------------------------------------------------------------------------
(* levels/level_manager.py, levels/psychological.py: the level set of one   *)
(* scan.  Prices are integers, in thousandths; a date is the number of days *)
(* it lies back (-1: a date that does not parse), so last_touch_date is     *)
(* carried by last_touch_days.                                              *)

\* round(price, 2), in thousandths (no price below is halfway between two
\* hundredths)
Round2Thousandths(p) == RoundHalfEven(p, 10) * 10

\* pct_diff <= tolerance_pct with pct_diff = abs(p - existing) / existing * 100
\* and tolerance_pct in tenths of a percent (existing > 0; no price below is
\* exactly on the tolerance): abs(p - existing) * 1000 <= tolerance * existing
\* written without leaving 32 bits.
WithinPct(p, existing, tolerance) == Abs(p - existing) <= (tolerance * existing) \div 1000

BuiltLevel(price, type, source, timeframes, touch_count, last_touch_days, hvz, psy) ==
    [price |-> price, type |-> type, source |-> source, timeframes |-> timeframes,
     touch_count |-> touch_count, visible_in_timeframes |-> 1,
     last_touch_days |-> last_touch_days, is_high_volume_zone |-> hvz,
     is_psychological |-> psy]

\* seq with x appended unless it is in it ("if x not in seq: seq.append(x)")
AppendNew(seq, x) == IF \E k \in 1..Len(seq) : seq[k] = x THEN seq ELSE Append(seq, x)

\* The index of the first level within 0.3% of p, 0 if there is none.
FirstWithin(levels, p, guarded) ==
    LET hits == {k \in 1..Len(levels) :
                    /\ guarded => levels[k].price > 0
                    /\ WithinPct(p, levels[k].price, 3)}
    IN  IF hits = {} THEN 0 ELSE CHOOSE k \in hits : \A m \in hits : k <= m

\* _swings_to_levels, merge branch: the existing level after the swing.
SwingMerged(existing, swing) ==
    LET tfs == AppendNew(existing.timeframes, swing.timeframe)
    IN  [existing EXCEPT
            !.touch_count = @ + 1,
            !.timeframes = tfs,
            !.visible_in_timeframes = IF tfs # existing.timeframes THEN Len(tfs) ELSE @,
            !.source = AppendNew(@, "swing"),
            !.last_touch_days = IF swing.days_ago # -1 /\ swing.days_ago < @
                                THEN swing.days_ago ELSE @]

\* _swings_to_levels, the level created for a swing merged nowhere.
SwingLevel(swing) ==
    BuiltLevel(Round2Thousandths(swing.price),
               IF swing.type = "low" THEN "support" ELSE "resistance",
               <<"swing">>, <<swing.timeframe>>, 1,
               IF swing.days_ago # -1 THEN swing.days_ago ELSE 999, FALSE, FALSE)

\* _swings_to_levels: the loop over the swings, levels being the list so far.
RECURSIVE SwingsToLevels(_, _)
SwingsToLevels(swings, levels) ==
    IF swings = <<>> THEN levels
    ELSE LET swing == Head(swings)
             k == FirstWithin(levels, swing.price, FALSE)
         IN  SwingsToLevels(Tail(swings),
                 IF k # 0 THEN [levels EXCEPT ![k] = SwingMerged(levels[k], swing)]
                 ELSE Append(levels, SwingLevel(swing)))

\* _volume_zones_to_levels
VolumeZonesToLevels(vol_zones, current_price) ==
    [k \in 1..Len(vol_zones) |->
        BuiltLevel(Round2Thousandths(vol_zones[k].price),
                   IF vol_zones[k].price < current_price THEN "support" ELSE "resistance",
                   <<"volume_profile">>, <<>>, 0, 999, TRUE, FALSE)]

\* ALL_LEVELS, in whole dollars
ALL_LEVELS ==
    << 10000, 15000, 20000, 25000, 30000, 35000, 40000, 45000, 50000, 55000, 60000,
       65000, 70000, 75000, 80000, 85000, 90000, 95000, 100000, 110000, 120000,
       125000, 150000, 175000, 200000, 250000, 300000, 500000 >>

\* get_nearby_psychological_levels with range_pct = 30: the levels l with
\* current_price * 0.7 <= l <= current_price * 1.3 (no current price below
\* puts a bound on a level).
GetNearbyPsychologicalLevels(current_price) ==
    IF current_price <= 0 THEN <<>>
    ELSE LET near == SelectSeq(ALL_LEVELS, LAMBDA l :
                         /\ l * 1000 >= (current_price * 7) \div 10
                         /\ l * 1000 <= (current_price * 13) \div 10)
         IN  [k \in 1..Len(near) |->
                 BuiltLevel(near[k] * 1000,
                            IF near[k] * 1000 < current_price THEN "support" ELSE "resistance",
                            <<"psychological">>, <<>>, 0, 999, FALSE, TRUE)]

RECURSIVE AppendAllNew(_, _)
AppendAllNew(seq, xs) ==
    IF xs = <<>> THEN seq ELSE AppendAllNew(AppendNew(seq, Head(xs)), Tail(xs))

\* _merge_levels with a merge that counts one touch
LevelMergedCountingTouch(existing, new_lv) ==
    [existing EXCEPT !.touch_count = @ + new_lv.touch_count + 1]

\* _merge_levels, merge branch: the existing level after new_lv.
LevelMerged(existing, new_lv) ==
    LET tfs == AppendAllNew(existing.timeframes, new_lv.timeframes)
    IN  [existing EXCEPT
            !.source = AppendAllNew(@, new_lv.source),
            !.timeframes = tfs,
            !.visible_in_timeframes = IF tfs # existing.timeframes THEN Len(tfs) ELSE @,
            !.is_high_volume_zone = @ \/ new_lv.is_high_volume_zone,
            !.is_psychological = @ \/ new_lv.is_psychological,
            !.last_touch_days = IF new_lv.last_touch_days < @ THEN new_lv.last_touch_days ELSE @,
            !.touch_count = @ + new_lv.touch_count]

\* _merge_levels with tolerance_pct = 0.3
RECURSIVE MergeLevels(_, _)
MergeLevels(base, new) ==
    IF new = <<>> THEN base
    ELSE LET new_lv == Head(new)
             k == FirstWithin(base, new_lv.price, TRUE)
         IN  MergeLevels(IF k # 0 THEN [base EXCEPT ![k] = LevelMerged(base[k], new_lv)]
                         ELSE Append(base, new_lv),
                         Tail(new))

\* Argument domain
MaxSwingPoints == 3

MaxVolZones == 2

DatedSwing(price, type, timeframe, days_ago) ==
    [price |-> price, type |-> type, timeframe |-> timeframe, days_ago |-> days_ago]

DatedSwingPool ==
    { DatedSwing(12010004, "high", "1D", 5), DatedSwing(12020006, "low", "4H", 2),
      DatedSwing(10010002, "low", "1D", -1), DatedSwing(13000000, "high", "1W", 40),
      DatedSwing(12050001, "high", "4H", 1), DatedSwing(12056074, "high", "1D", 3) }

VolZonePool == { [price |-> 12015500], [price |-> 11000120], [price |-> 10020000] }

CurrentPrices == { 12000000, 21000000 }

\* scan_levels, step 2: the swing-derived levels.
BuildFromSwings ==
    /\ call.fn = "scan_levels"
    /\ call.pc = "swings"
    /\ call' = [call EXCEPT !.pc = "volume",
                            !.all_levels = SwingsToLevels(call.all_swings, <<>>)]
    /\ UNCHANGED <<inst, frame, scan, lvl>>

\* scan_levels, step 3: the volume-zone levels merged in.
MergeVolumeZones ==
    /\ call.fn = "scan_levels"
    /\ call.pc = "volume"
    /\ call' = [call EXCEPT !.pc = "psychological",
                   !.all_levels = MergeLevels(call.all_levels,
                                     VolumeZonesToLevels(call.vol_zones, call.current_price))]
    /\ UNCHANGED <<inst, frame, scan, lvl>>

\* scan_levels, step 4: the psychological levels merged in.
MergePsychological ==
    /\ call.fn = "scan_levels"
    /\ call.pc = "psychological"
    /\ call' = [call EXCEPT !.pc = "built",
                   !.all_levels = MergeLevels(call.all_levels,
                                     GetNearbyPsychologicalLevels(call.current_price))]
    /\ UNCHANGED <<inst, frame, scan, lvl>>

InitLevelSet ==
    /\ \E all_swings \in SeqsUpTo(DatedSwingPool, MaxSwingPoints),
          vol_zones \in SeqsUpTo(VolZonePool, MaxVolZones),
          current_price \in CurrentPrices :
           call = [fn |-> "scan_levels", pc |-> "swings", all_swings |-> all_swings,
                   vol_zones |-> vol_zones, current_price |-> current_price,
                   all_levels |-> <<>>]
    /\ IdleOld

NextLevelSet == BuildFromSwings \/ MergeVolumeZones \/ MergePsychological

SpecLevelSet == InitLevelSet /\ [][NextLevelSet]_vars

LevelSetBuilt == call.fn = "scan_levels" /\ call.pc = "built"

HasSource(level, src) == \E k \in 1..Len(level.source) : level.source[k] = src

\* C16 as stated: every level of the level set built has touch_count >= 1.
C16_AsClaimed ==
    LevelSetBuilt =>
        \A k \in 1..Len(call.all_levels) : call.all_levels[k].touch_count >= 1

\* C16: in the level set built, a level with a swing among its sources has
\* touch_count >= 1, and a level without one, made of volume zones and
\* psychological levels only, has touch_count 0.
C16_TouchCountCountsSwings ==
    LevelSetBuilt =>
        \A k \in 1..Len(call.all_levels) :
            LET level == call.all_levels[k]
            IN  /\ HasSource(level, "swing") => level.touch_count >= 1
                /\ ~HasSource(level, "swing") => level.touch_count = 0

\* A level set with a swing level of two swings that took a volume zone, and
\* a psychological level merged into a volume-zone level, both without touch.
C16_Witness ==
    /\ LevelSetBuilt
    /\ \E k \in 1..Len(call.all_levels) :
          /\ call.all_levels[k].touch_count = 2
          /\ call.all_levels[k].is_high_volume_zone
    /\ \E k \in 1..Len(call.all_levels) :
          /\ call.all_levels[k].touch_count = 0
          /\ call.all_levels[k].is_high_volume_zone
          /\ call.all_levels[k].is_psychological

-----------------------------------------------------------------------------
(* fibonacci/fibonacci_engine.py.  Swing prices and the current price are   *)
(* whole numbers; level prices and zone bounds are in hundredths; ratios    *)
(* are in thousandths; a date is a day number.  The significant swings of a *)
(* timeframe (swing_finder) are an input.  With whole swing prices no level *)
(* price is halfway between two hundredths, and the swings below put no     *)
(* zone bound there either.                                                 *)

RetracementLevel(ratio, label, quality) == [ratio |-> ratio, label |-> label, quality |-> quality]

RETRACEMENT_LEVELS ==
    << RetracementLevel(236, "Shallow", 2), RetracementLevel(382, "Moderate", 5),
       RetracementLevel(500, "Mid", 6), RetracementLevel(618, "Golden Ratio", 9),
       RetracementLevel(650, "Golden Pocket", 10), RetracementLevel(786, "Deep", 7) >>

ExtensionLevel(ratio, label) == [ratio |-> ratio, label |-> label]

EXTENSION_LEVELS ==
    << ExtensionLevel(1000, "Measured Move"), ExtensionLevel(1272, "Standard"),
       ExtensionLevel(1618, "Golden Extension"), ExtensionLevel(2000, "Double Move"),
       ExtensionLevel(2618, "Extended") >>

TIMEFRAMES == <<"1H", "4H", "1D", "1W">>

\* ZONE_WIDTH_PCT = 0.003, in thousandths
ZONE_WIDTH == 3

\* One retracement level; price1000 is the unrounded price, in thousandths.
RetracementAt(level, price1000) ==
    [ratio |-> level.ratio, label |-> level.label,
     price |-> RoundHalfEven(price1000, 10),
     zone_low |-> RoundHalfEven(price1000 * (1000 - ZONE_WIDTH), 10000),
     zone_high |-> RoundHalfEven(price1000 * (1000 + ZONE_WIDTH), 10000),
     entry_quality |-> level.quality]

\* calculate_retracements without the "diff <= 0" return
CalculateRetracementsUnguarded(swing_low, swing_high, direction) ==
    [k \in 1..Len(RETRACEMENT_LEVELS) |->
        RetracementAt(RETRACEMENT_LEVELS[k],
            IF direction = "LONG"
            THEN swing_high * 1000 - (swing_high - swing_low) * RETRACEMENT_LEVELS[k].ratio
            ELSE swing_low * 1000 + (swing_high - swing_low) * RETRACEMENT_LEVELS[k].ratio)]

CalculateRetracements(swing_low, swing_high, direction) ==
    LET diff == swing_high - swing_low
    IN  IF diff <= 0 THEN <<>>
        ELSE [k \in 1..Len(RETRACEMENT_LEVELS) |->
                 RetracementAt(RETRACEMENT_LEVELS[k],
                     IF direction = "LONG"
                     THEN swing_high * 1000 - diff * RETRACEMENT_LEVELS[k].ratio
                     ELSE swing_low * 1000 + diff * RETRACEMENT_LEVELS[k].ratio)]

CalculateExtensions(swing_low, swing_high, pullback_end, direction) ==
    LET impulse == swing_high - swing_low
    IN  IF impulse <= 0 THEN <<>>
        ELSE [k \in 1..Len(EXTENSION_LEVELS) |->
                 [ratio |-> EXTENSION_LEVELS[k].ratio, label |-> EXTENSION_LEVELS[k].label,
                  price |-> RoundHalfEven(
                      IF direction = "LONG"
                      THEN pullback_end * 1000 + impulse * EXTENSION_LEVELS[k].ratio
                      ELSE pullback_end * 1000 - impulse * EXTENSION_LEVELS[k].ratio, 10)]]

\* _last_swing_of_type: <<the first swing of the latest date>>, or <<>> for None.
LastSwingOfType(swings, swing_type) ==
    LET candidates == SelectSeq(swings, LAMBDA s : s.type = swing_type)
    IN  IF candidates = <<>> THEN <<>>
        ELSE LET k == CHOOSE k \in 1..Len(candidates) :
                          /\ \A m \in 1..Len(candidates) : candidates[m].date <= candidates[k].date
                          /\ \A m \in 1..(k - 1) : candidates[m].date < candidates[k].date
             IN  <<candidates[k]>>

\* calculate_for_timeframe up to _persist: <<the result>>, or <<>> for None.
Analysis(timeframe, swings, current_price) ==
    LET last_high == LastSwingOfType(swings, "high")
        last_low == LastSwingOfType(swings, "low")
    IN  IF Len(swings) < 2 \/ last_high = <<>> \/ last_low = <<>> THEN <<>>
        ELSE LET direction == IF last_high[1].date >= last_low[1].date THEN "LONG" ELSE "SHORT"
             IN  << [timeframe |-> timeframe, direction |-> direction,
                     swing_high |-> last_high[1].price, swing_high_date |-> last_high[1].date,
                     swing_low |-> last_low[1].price, swing_low_date |-> last_low[1].date,
                     retracements |->
                         CalculateRetracements(last_low[1].price, last_high[1].price, direction),
                     extensions |->
                         CalculateExtensions(last_low[1].price, last_high[1].price,
                                             current_price, direction)] >>

\* _persist: the rows built from a result (updated_at left out).
PersistRows(result) ==
       [k \in 1..Len(result.retracements) |->
           [timeframe |-> result.timeframe, type |-> "retracement",
            direction |-> result.direction, ratio |-> result.retracements[k].ratio,
            price |-> result.retracements[k].price,
            swing_high |-> result.swing_high, swing_low |-> result.swing_low]]
    \o [k \in 1..Len(result.extensions) |->
           [timeframe |-> result.timeframe, type |-> "extension",
            direction |-> result.direction, ratio |-> result.extensions[k].ratio,
            price |-> result.extensions[k].price,
            swing_high |-> result.swing_high, swing_low |-> result.swing_low]]

SameKey(r, s) ==
    /\ r.timeframe = s.timeframe /\ r.type = s.type
    /\ r.direction = s.direction /\ r.ratio = s.ratio

\* upsert(rows, on_conflict="timeframe,type,direction,ratio") on the table.
Upsert(table, rows) ==
    {r \in table : \A k \in 1..Len(rows) : ~SameKey(r, rows[k])}
        \cup {rows[k] : k \in 1..Len(rows)}

\* Argument domain
DSwing(type, price, date) == [type |-> type, price |-> price, date |-> date]

SwingChoices ==
    { <<>>,
      << DSwing("high", 120, 1) >>,
      << DSwing("high", 120, 1), DSwing("high", 130, 3) >>,
      << DSwing("low", 100, 1), DSwing("high", 120, 2) >>,
      << DSwing("high", 120, 1), DSwing("low", 100, 2) >>,
      << DSwing("high", 100, 1), DSwing("low", 110, 2) >>,
      << DSwing("low", 110, 1), DSwing("high", 110, 2) >> }

StaleRow ==
    [timeframe |-> "1H", type |-> "retracement", direction |-> "LONG", ratio |-> 500,
     price |-> 9000, swing_high |-> 100, swing_low |-> 80]

\* One pass of the loop of scan_all_timeframes: calculate_for_timeframe for
\* the next timeframe, its upsert when there are rows (a failed upsert is
\* logged and changes nothing), and the entry added to results.
ScanTimeframe ==
    /\ call.fn = "scan_all_timeframes"
    /\ ~call.returned
    /\ call.k <= Len(TIMEFRAMES)
    /\ LET tf == TIMEFRAMES[call.k]
           analysis == Analysis(tf, call.swings[tf], call.current_price)
           rows == IF analysis = <<>> THEN <<>> ELSE PersistRows(analysis[1])
       IN  \E written \in BOOLEAN :
             call' = [call EXCEPT
                        !.k = @ + 1,
                        !.results = @ \o analysis,
                        !.upserts = IF rows # <<>>
                                    THEN Append(@, [timeframe |-> tf, rows |-> rows])
                                    ELSE @,
                        !.table = IF rows # <<>> /\ written THEN Upsert(@, rows) ELSE @]
    /\ UNCHANGED <<inst, frame, scan, lvl>>

\* return results
ScanReturn ==
    /\ call.fn = "scan_all_timeframes"
    /\ ~call.returned
    /\ call.k > Len(TIMEFRAMES)
    /\ call' = [call EXCEPT !.returned = TRUE]
    /\ UNCHANGED <<inst, frame, scan, lvl>>

InitFibEngine ==
    /\ \E swings \in [{"1H", "4H", "1D", "1W"} -> SwingChoices], table \in {{}, {StaleRow}} :
           call = [fn |-> "scan_all_timeframes", swings |-> swings, current_price |-> 115,
                   k |-> 1, results |-> <<>>, upserts |-> <<>>, table |-> table,
                   table0 |-> table, returned |-> FALSE]
    /\ IdleOld

NextFibEngine == ScanTimeframe \/ ScanReturn

SpecFibEngine == InitFibEngine /\ [][NextFibEngine]_vars

ScanReturned == call.fn = "scan_all_timeframes" /\ call.returned

\* The timeframe has a last significant swing high and a last significant
\* swing low, and the price of the high is not above the price of the low.
HighNotAboveLow(tf) ==
    LET swings == call.swings[tf]
        last_high == LastSwingOfType(swings, "high")
        last_low == LastSwingOfType(swings, "low")
    IN  /\ last_high # <<>> /\ last_low # <<>>
        /\ last_high[1].price <= last_low[1].price

HasEntry(tf) == \E k \in 1..Len(call.results) : call.results[k].timeframe = tf

NothingPersisted(tf) ==
    /\ \A k \in 1..Len(call.upserts) : call.upserts[k].timeframe # tf
    /\ {r \in call.table : r.timeframe = tf} = {r \in call.table0 : r.timeframe = tf}

\* C17 as stated: a timeframe whose last swing high is not above its last
\* swing low has nothing persisted and no entry in the result of
\* scan_all_timeframes.
C17_AsClaimed ==
    ScanReturned =>
        \A k \in 1..Len(TIMEFRAMES) :
            HighNotAboveLow(TIMEFRAMES[k]) =>
                NothingPersisted(TIMEFRAMES[k]) /\ ~HasEntry(TIMEFRAMES[k])

\* C17: a timeframe whose last swing high is not above its last swing low has
\* nothing persisted, and its entry in the result of scan_all_timeframes is an
\* analysis with no retracement levels and no extension levels.
C17_EmptyAnalysisReturned ==
    ScanReturned =>
        \A k \in 1..Len(TIMEFRAMES) :
            HighNotAboveLow(TIMEFRAMES[k]) =>
                /\ NothingPersisted(TIMEFRAMES[k])
                /\ HasEntry(TIMEFRAMES[k])
                /\ \A m \in 1..Len(call.results) :
                       call.results[m].timeframe = TIMEFRAMES[k] =>
                           /\ call.results[m].retracements = <<>>
                           /\ call.results[m].extensions = <<>>

\* A scan in which 1H has its high under its low and 4H is persisted.
C17_Witness ==
    /\ ScanReturned
    /\ HighNotAboveLow("1H")
    /\ call.swings["1H"][1].price < call.swings["1H"][2].price
    /\ call.table0 = {StaleRow}
    /\ HasEntry("1H")
    /\ ~HighNotAboveLow("4H") /\ HasEntry("4H")
    /\ \E r \in call.table : r.timeframe = "4H"

-----------------------------------------------------------------------------
(* levels/role_flip.py: detect_role_flips, bar by bar.  Prices are whole    *)
(* numbers; the date of a bar is its position (from 1), and None is 0, for  *)
(* breakout_idx and for flip_date alike.  No bar below lies exactly on      *)
(* price - tol or price + tol.                                              *)

\* TOLERANCE_PCT, in tenths of a percent
TOLERANCE_PCT == 3

\* v >= price - tol, with tol = price * (TOLERANCE_PCT / 100)
AtOrAboveLowerBand(v, price) == v * 1000 >= price * (1000 - TOLERANCE_PCT)

\* v <= price + tol
AtOrBelowUpperBand(v, price) == v * 1000 <= price * (1000 + TOLERANCE_PCT)

\* "high_i >= (price - tol) and close_i < price"
IsRejection(bar, price) == AtOrAboveLowerBand(bar.high, price) /\ bar.close < price

\* "low_i <= (price + tol) and close_i > price"
IsRetest(bar, price) == AtOrBelowUpperBand(bar.low, price) /\ bar.close > price

\* "close_i < (price - tol)"
ClosesBelowBand(bar, price) == ~AtOrAboveLowerBand(bar.close, price)

FlipLevel(price, is_role_flip, flip_date) ==
    [price |-> price, is_role_flip |-> is_role_flip, flip_date |-> flip_date]

OHLC(high, low, close) == [high |-> high, low |-> low, close |-> close]

\* Argument domain
MaxFlipBars == 5

FlipBarShapes ==
    { OHLC(999, 990, 995), OHLC(1005, 996, 998), OHLC(1020, 1010, 1015),
      OHLC(1010, 1001, 1006), OHLC(996, 980, 985) }

FlipLevelLists ==
    { <<>>, << FlipLevel(1000, FALSE, 0) >>, << FlipLevel(1000, TRUE, 99) >>,
      << FlipLevel(1010, FALSE, 0), FlipLevel(1000, FALSE, 0) >> }

FlipCall == call.fn = "detect_role_flips"

\* "if prices_df.empty or not levels: return levels"
FlipEarlyReturn ==
    /\ FlipCall /\ call.pc = "start"
    /\ call.bars = <<>> \/ call.levels = <<>>
    /\ call' = [call EXCEPT !.pc = "done"]
    /\ UNCHANGED <<inst, frame, scan, lvl>>

\* The head of "for level in levels": the locals of the level.
FlipStartLevel ==
    /\ FlipCall
    /\ \/ call.pc = "start" /\ call.bars # <<>> /\ call.levels # <<>>
       \/ call.pc = "level" /\ call.li <= Len(call.levels)
    /\ call' = [call EXCEPT !.pc = "bar", !.i = 1, !.resistance_rejections = 0,
                            !.breakout_idx = 0, !.flip_confirmed = FALSE,
                            !.flip_date_str = 0, !.failed_idx = 0]
    /\ UNCHANGED <<inst, frame, scan, lvl>>

\* "if resistance_rejections >= 2 and close_i > price", with one rejection
\* being enough
BreakoutRecognisedAfterOne(rejections, bar, price) == rejections >= 1 /\ bar.close > price

\* "if resistance_rejections >= 2 and close_i > price"
BreakoutRecognised(rejections, bar, price) == rejections >= 2 /\ bar.close > price

\* One pass of "for i in range(total)".  failed_idx is history: the bar at
\* which breakout_idx was last set back to None (line 76, which leaves
\* resistance_rejections as it is).
FlipScanBar ==
    /\ FlipCall /\ call.pc = "bar"
    /\ call.i <= Len(call.bars)
    /\ LET bar == call.bars[call.i]
           price == call.levels[call.li].price
           rejections == IF IsRejection(bar, price)
                         THEN call.resistance_rejections + 1
                         ELSE call.resistance_rejections
       IN  IF call.breakout_idx = 0
           THEN call' = [call EXCEPT
                           !.i = @ + 1,
                           !.resistance_rejections = rejections,
                           !.breakout_idx = IF BreakoutRecognised(rejections, bar, price)
                                            THEN call.i ELSE 0]
           ELSE IF IsRetest(bar, price)
           THEN call' = [call EXCEPT !.pc = "after", !.flip_confirmed = TRUE,
                                     !.flip_date_str = call.i]
           ELSE IF ClosesBelowBand(bar, price)
           THEN call' = [call EXCEPT
                           !.i = @ + 1, !.breakout_idx = 0, !.failed_idx = call.i]
           ELSE call' = [call EXCEPT !.i = @ + 1]
    /\ UNCHANGED <<inst, frame, scan, lvl>>

\* After the bars of a level: "if flip_confirmed", and the next level.
FlipEndLevel ==
    /\ FlipCall
    /\ \/ call.pc = "after"
       \/ call.pc = "bar" /\ call.i > Len(call.bars)
    /\ call' = [call EXCEPT
                  !.pc = "level", !.li = @ + 1,
                  !.levels[call.li] =
                      IF call.flip_confirmed
                      THEN [@ EXCEPT !.is_role_flip = TRUE, !.flip_date = call.flip_date_str]
                      ELSE @]
    /\ UNCHANGED <<inst, frame, scan, lvl>>

\* return levels
FlipReturn ==
    /\ FlipCall /\ call.pc = "level"
    /\ call.li > Len(call.levels)
    /\ call' = [call EXCEPT !.pc = "done"]
    /\ UNCHANGED <<inst, frame, scan, lvl>>

InitRoleFlip ==
    /\ \E levels \in FlipLevelLists, len \in 0..MaxFlipBars :
         \E bars \in [1..len -> FlipBarShapes] :
           call = [fn |-> "detect_role_flips", pc |-> "start", levels |-> levels,
                   levels0 |-> levels, bars |-> bars, li |-> 1, i |-> 1,
                   resistance_rejections |-> 0, breakout_idx |-> 0,
                   flip_confirmed |-> FALSE, flip_date_str |-> 0, failed_idx |-> 0]
    /\ IdleOld

NextRoleFlip ==
    FlipEarlyReturn \/ FlipStartLevel \/ FlipScanBar \/ FlipEndLevel \/ FlipReturn

SpecRoleFlip == InitRoleFlip /\ [][NextRoleFlip]_vars

\* The rejection bars of the level being scanned among the bars from..to.
RejectionBars(from, to) ==
    {j \in from..to : IsRejection(call.bars[j], call.levels[call.li].price)}

\* A breakout is recognised in this step, after a failed breakout.
BreakoutAfterFailed ==
    /\ FlipCall /\ call.pc = "bar"
    /\ call.breakout_idx = 0 /\ call.failed_idx # 0
    /\ call'.breakout_idx # 0

\* C18: a breakout recognised after a failed breakout has at least 2 rejection
\* bars behind it that come after the failed bar.
C18_NewRejectionsAfterFailedBreakout ==
    [][BreakoutAfterFailed =>
          Cardinality(RejectionBars(call.failed_idx + 1, call'.breakout_idx)) >= 2]_vars

\* The bars 1..t hold the sequence for a level of this price: two rejection
\* bars, then a breakout bar, then the retest bar t, no bar between the
\* breakout and t closing below price - tol.
SequenceCompleteAt(price, t) ==
    /\ IsRetest(call.bars[t], price)
    /\ \E b \in 1..(t - 1) :
          /\ call.bars[b].close > price
          /\ Cardinality({j \in 1..(b - 1) : IsRejection(call.bars[j], price)}) >= 2
          /\ \A j \in (b + 1)..(t - 1) : ~ClosesBelowBand(call.bars[j], price)

\* C19: when detect_role_flips has returned, a level whose sequence completes
\* has is_role_flip set and the date of the first retest bar completing it as
\* flip_date; every other level has the is_role_flip and flip_date it had.
C19_FlipOnlyOnCompleteSequence ==
    FlipCall /\ call.pc = "done" =>
        \A k \in 1..Len(call.levels) :
            LET level == call.levels[k]
                complete == {t \in 1..Len(call.bars) : SequenceCompleteAt(level.price, t)}
            IN  /\ level.price = call.levels0[k].price
                /\ IF complete # {}
                   THEN /\ level.is_role_flip
                        /\ level.flip_date \in complete
                        /\ \A t \in complete : level.flip_date <= t
                   ELSE level = call.levels0[k]

\* Two levels: the sequence completes at the 4th bar for the second and never
\* for the first.
C19_Witness ==
    /\ FlipCall /\ call.pc = "done"
    /\ Len(call.levels) = 2
    /\ call.levels[1] = FlipLevel(1010, FALSE, 0)
    /\ call.levels[2] = FlipLevel(1000, TRUE, 4)
    /\ Len(call.bars) = 5

-----------------------------------------------------------------------------
(* Stop-loss selection (EnhancedTPSL._calculate_sl), on the calls of SpecCalc *)

\* calculate(), line 74: buffer = atr * ATR_BUFFER.get(timeframe, 1.5)
SlBuffer(a) == a.atr * ATR_BUFFER(a.timeframe) * (DEN \div 10)

\* The candidates of c's call whose distance from entry is within the cap.
SlWithinCap(c) ==
    LET a == Args(c)
        cands == SlCandidates(a, SlBuffer(a))
    IN  {cands[k] : k \in {j \in DOMAIN cands :
            Abs(V(a.entry) - cands[j].price) * 100 <= MAX_SL_PERCENT(a.timeframe) * V(a.entry)}}

\* C20, as claimed: in a call that gets to select a stop (ATR > 0), every
\* stop-loss candidate lies below entry for LONG and above it for SHORT; when
\* some candidate is within the timeframe's cap, _calculate_sl returns a
\* candidate within the cap, none of those is closer to entry, and sl_method
\* is its name.
C20_AsClaimed ==
    \A c \in Callers : Returned(c) /\ Args(c).atr > 0 =>
        LET a == Args(c)
            e == V(a.entry)
            cands == SlCandidates(a, SlBuffer(a))
            picked == CalculateSl(a, SlBuffer(a))
        IN  /\ \A k \in DOMAIN cands :
                  IF a.direction = "LONG" THEN cands[k].price < e ELSE cands[k].price > e
            /\ SlWithinCap(c) # {} =>
                  /\ picked \in SlWithinCap(c)
                  /\ \A w \in SlWithinCap(c) : Abs(e - picked.price) <= Abs(e - w.price)
            /\ Res(c).valid => frame[c].sl = picked.price /\ Res(c).sl_method = picked.name

\* C20, amended: no stop-loss candidate lies above entry for LONG or below it
\* for SHORT, and only the ATR fallback can lie at entry, when 1.5 buffers are
\* too small to move entry; when some candidate is within the timeframe's cap,
\* _calculate_sl returns a candidate within the cap, none of those is closer to
\* entry, and sl_method is its name.
C20_ClosestWithinCapSelected ==
    \A c \in Callers : Returned(c) /\ Args(c).atr > 0 =>
        LET a == Args(c)
            e == V(a.entry)
            cands == SlCandidates(a, SlBuffer(a))
            picked == CalculateSl(a, SlBuffer(a))
        IN  /\ \A k \in DOMAIN cands :
                  /\ IF a.direction = "LONG" THEN cands[k].price <= e ELSE cands[k].price >= e
                  /\ cands[k].price = e =>
                        cands[k].name = "atr_fallback" /\ AtrFallbackSl(a, SlBuffer(a)) = e
            /\ SlWithinCap(c) # {} =>
                  /\ picked \in SlWithinCap(c)
                  /\ \A w \in SlWithinCap(c) : Abs(e - picked.price) <= Abs(e - w.price)
            /\ Res(c).valid => frame[c].sl = picked.price /\ Res(c).sl_method = picked.name

\* A LONG call with four candidates within the cap, where the swing low is
\* closer to entry than the strong support and the 0.786 level listed before it.
C20_Witness ==
    /\ ValidReturn(1)
    /\ Args(1).direction = "LONG"
    /\ Cardinality(SlWithinCap(1)) >= 4
    /\ {"gran_soporte", "fib_0786", "swing_low"} \subseteq {w.name : w \in SlWithinCap(1)}
    /\ Res(1).sl_method = "swing_low"

-----------------------------------------------------------------------------
(* Take-profit selection (EnhancedTPSL._calculate_tp1 / _calculate_tp2 and   *)
(* the minimum R:R of calculate), on the calls of SpecCalc                   *)

\* p lies strictly beyond entry in the direction of the trade.
BeyondEntry(a, p) == IF a.direction = "LONG" THEN p > V(a.entry) ELSE p < V(a.entry)

\* entry +/- risk * min_rr (min_rr in tenths)
AtMinRR(a, risk, min_rr) ==
    IF a.direction = "LONG" THEN V(a.entry) + (risk * min_rr) \div 10
    ELSE V(a.entry) - (risk * min_rr) \div 10

\* The TP1 candidates of c's call that lie strictly beyond entry.
Tp1Beyond(c) ==
    LET cands == Tp1Candidates(Args(c), frame[c].risk)
    IN  {cands[k] : k \in {j \in DOMAIN cands : BeyondEntry(Args(c), cands[j].price)}}

\* C21: in a valid call, the TP1 candidate picked lies strictly beyond entry
\* and no candidate beyond entry is nearer; when its R:R is below MIN_RR_TP1
\* the call returns tp1 = entry +/- risk * MIN_RR_TP1 with tp1_method =
\* "min_rr_fallback", and otherwise the picked price under the picked name
\* (at exactly the minimum the floating-point quotient decides the tag).
C21_NearestPickedThenMinRR ==
    \A c \in Callers : ValidReturn(c) =>
        LET a == Args(c)
            e == V(a.entry)
            f == frame[c]
            min_rr == MIN_RR_TP1(a.timeframe)
            picked == CalculateTp1(a, f.risk)
            dist == Abs(picked.price - e)
        IN  /\ picked \in Tp1Beyond(c)
            /\ \A w \in Tp1Beyond(c) : dist <= Abs(w.price - e)
            /\ dist * 10 < f.risk * min_rr =>
                  /\ f.tp1 = AtMinRR(a, f.risk, min_rr)
                  /\ Res(c).tp1_method = "min_rr_fallback"
            /\ dist * 10 >= f.risk * min_rr =>
                  /\ f.tp1 = picked.price
                  /\ Res(c).tp1_method \in
                        {picked.name} \cup
                        (IF dist * 10 = f.risk * min_rr THEN {"min_rr_fallback"} ELSE {})

\* A SHORT call with three candidates beyond entry, the nearest of them a strong
\* support whose R:R is below the minimum.
C21_Witness ==
    /\ ValidReturn(1)
    /\ Args(1).direction = "SHORT"
    /\ Cardinality(Tp1Beyond(1)) >= 3
    /\ CalculateTp1(Args(1), frame[1].risk).name = "strong_support"
    /\ Res(1).tp1_method = "min_rr_fallback"
    /\ frame[1].tp1 = AtMinRR(Args(1), frame[1].risk, MIN_RR_TP1(Args(1).timeframe))

\* The TP2 candidates of c's call.
Tp2Cands(c) ==
    LET cands == Tp2Candidates(Args(c), frame[c].risk, frame[c].tp1)
    IN  {cands[k] : k \in DOMAIN cands}

\* C22: in every valid result tp1 = entry +/- risk * MIN_RR_TP1 and
\* tp2 = entry +/- risk * MIN_RR_TP2 with risk = |entry - sl|, whatever levels,
\* extensions, swing points and Bollinger values were given; the prices
\* returned are these rounded to 2 decimals.
C22_TakeProfitsAtMinRR ==
    \A c \in Callers : ValidReturn(c) =>
        LET a == Args(c)
            f == frame[c]
            tp1 == AtMinRR(a, Abs(V(a.entry) - f.sl), MIN_RR_TP1(a.timeframe))
            tp2 == AtMinRR(a, Abs(V(a.entry) - f.sl), MIN_RR_TP2(a.timeframe))
        IN  /\ f.tp1 = tp1 /\ f.tp2 = tp2
            /\ Res(c).tp1 \in Round2(tp1, a.res)
            /\ Res(c).tp2 \in Round2(tp2, a.res)

\* A valid call in which structural candidates were nearer than the ATR
\* fallback for both targets.
C22_Witness ==
    /\ ValidReturn(1)
    /\ Cardinality(Tp1Beyond(1)) >= 3
    /\ Cardinality(Tp2Cands(1)) >= 3
    /\ CalculateTp1(Args(1), frame[1].risk).name # "atr_fallback"
    /\ CalculateTp2(Args(1), frame[1].risk, frame[1].tp1).name # "atr_fallback"
    /\ Res(1).tp1_method = "min_rr_fallback"
    /\ Res(1).tp2_method = "min_rr_fallback"

-----------------------------------------------------------------------------
(* The invalid results of EnhancedTPSL.calculate, on the calls of SpecCalc *)

SlExceedsReturned(c) == ~Res(c).valid /\ Res(c).reason \in SlExceedsTexts(Args(c).timeframe)

ZeroRiskReturned(c) == ~Res(c).valid /\ Res(c).reason = "Risk is zero (SL = entry)"

\* C23, as claimed: with ATR > 0 (entry is positive in every call), the
\* SL-exceeds-cap result is returned exactly when no stop-loss candidate is
\* within the cap, the result is valid whenever one is, and the zero-risk
\* result is never returned.
C23_AsClaimed ==
    \A c \in Callers : Returned(c) /\ Args(c).atr > 0 =>
        /\ SlExceedsReturned(c) <=> SlWithinCap(c) = {}
        /\ SlWithinCap(c) # {} => Res(c).valid
        /\ ~ZeroRiskReturned(c)

\* C23, amended: with ATR > 0, the SL-exceeds-cap result is returned exactly
\* when no stop-loss candidate is within the cap; the zero-risk result is
\* returned exactly when the ATR fallback, 1.5 buffers from entry, is entry
\* itself; in every other call the result is valid.
C23_InvalidExactlyWhen ==
    \A c \in Callers : Returned(c) /\ Args(c).atr > 0 =>
        /\ SlExceedsReturned(c) <=> SlWithinCap(c) = {}
        /\ ZeroRiskReturned(c) <=> AtrFallbackSl(Args(c), SlBuffer(Args(c))) = V(Args(c).entry)
        /\ Res(c).valid <=> ~SlExceedsReturned(c) /\ ~ZeroRiskReturned(c)

\* A call with an ATR too small to move entry, with a strong support and a
\* Bollinger band within the cap, refused for zero risk.
C23_Witness ==
    /\ Returned(1) /\ Args(1).atr > 0
    /\ Args(1).direction = "LONG"
    /\ {"gran_soporte", "bb_lower", "atr_fallback"} \subseteq {w.name : w \in SlWithinCap(1)}
    /\ ZeroRiskReturned(1)

-----------------------------------------------------------------------------
(* levels/zone_clusterer.py.  Prices are integers, in hundredths; no level   *)
(* below lies exactly on the tolerance.                                      *)

\* tolerance_pct: float = 0.5, in tenths of a percent
ZONE_TOLERANCE_PCT == 5

RECURSIVE SumTouches(_)
SumTouches(levels) ==
    IF levels = <<>> THEN 0 ELSE Head(levels).touch_count + SumTouches(Tail(levels))

\* "pct_diff <= tolerance_pct", pct_diff measured from the last member of the
\* cluster instead of its mean
WithinOfLastMember(curr_price, current_cluster, tolerance_pct) ==
    LET last == current_cluster[Len(current_cluster)].price
    IN  Abs(curr_price - last) * 1000 <= tolerance_pct * last

\* "pct_diff <= tolerance_pct", with cluster_mid = sum / len and pct_diff =
\* abs(curr_price - cluster_mid) / cluster_mid * 100 if cluster_mid > 0 else 0
WithinOfClusterMid(curr_price, current_cluster, tolerance_pct) ==
    LET sum == SumPrices(current_cluster)
        n == Len(current_cluster)
    IN  IF sum <= 0 THEN TRUE
        ELSE Abs(curr_price * n - sum) * 1000 <= tolerance_pct * sum

\* The loop of lines 34-46 from sorted_levels[i] on, and line 49.
RECURSIVE GrowClusters(_, _, _, _, _)
GrowClusters(sorted_levels, i, clusters, current_cluster, tolerance_pct) ==
    IF i > Len(sorted_levels) THEN Append(clusters, current_cluster)
    ELSE IF WithinOfClusterMid(sorted_levels[i].price, current_cluster, tolerance_pct)
    THEN GrowClusters(sorted_levels, i + 1, clusters,
                      Append(current_cluster, sorted_levels[i]), tolerance_pct)
    ELSE GrowClusters(sorted_levels, i + 1, Append(clusters, current_cluster),
                      <<sorted_levels[i]>>, tolerance_pct)

MaxStrength(cluster) ==
    CHOOSE s \in {cluster[k].strength : k \in 1..Len(cluster)} :
        \A k \in 1..Len(cluster) : cluster[k].strength <= s

\* _build_zone: the zones it can return (one, but for a mean that is a tie of
\* round(., 2)).  sorted(set) is held as the set.  cluster is the argument the
\* zone was built from.
BuildZone(cluster, current_price) ==
    { [price_low |-> cluster[CHOOSE k \in 1..Len(cluster) :
                               \A j \in 1..Len(cluster) : cluster[k].price <= cluster[j].price].price,
       price_high |-> cluster[CHOOSE k \in 1..Len(cluster) :
                               \A j \in 1..Len(cluster) : cluster[k].price >= cluster[j].price].price,
       price_mid |-> price_mid,
       strength |-> MaxStrength(cluster),
       type |-> IF price_mid < current_price THEN "support" ELSE "resistance",
       sources |-> UNION {cluster[k].source : k \in 1..Len(cluster)},
       touch_count |-> SumTouches(cluster),
       timeframes |-> UNION {cluster[k].timeframes : k \in 1..Len(cluster)},
       fib_ratios |-> {cluster[k].fib_level : k \in
                          {j \in 1..Len(cluster) :
                              cluster[j].coincides_with_fib /\ cluster[j].fib_level # 0}},
       has_gran_nivel |-> MaxStrength(cluster) >= 15,
       cluster |-> cluster]
      : price_mid \in RoundSet(SumPrices(cluster), Len(cluster), FALSE) }

\* The lists of zones of lines 52-55, one zone per cluster.
RECURSIVE BuildZones(_, _)
BuildZones(clusters, current_price) ==
    IF clusters = <<>> THEN { <<>> }
    ELSE { <<z>> \o rest : z \in BuildZone(Head(clusters), current_price),
                           rest \in BuildZones(Tail(clusters), current_price) }

\* zones.sort(key=strength, reverse=True): stable, equal strengths keep their order.
RECURSIVE InsertByStrength(_, _)
InsertByStrength(z, sorted) ==
    IF sorted = <<>> \/ z.strength > Head(sorted).strength THEN <<z>> \o sorted
    ELSE <<Head(sorted)>> \o InsertByStrength(z, Tail(sorted))

RECURSIVE SortedByStrength(_)
SortedByStrength(zones) ==
    IF zones = <<>> THEN <<>>
    ELSE InsertByStrength(zones[Len(zones)],
                          SortedByStrength(SubSeq(zones, 1, Len(zones) - 1)))

\* cluster_levels_into_zones: the lists it can return.
ClusterLevelsIntoZones(levels, current_price, tolerance_pct) ==
    IF levels = <<>> THEN { <<>> }
    ELSE LET sorted_levels == SortedByPrice(levels)
             clusters == GrowClusters(sorted_levels, 2, <<>>, <<sorted_levels[1]>>,
                                      tolerance_pct)
         IN  { SortedByStrength(zones) : zones \in BuildZones(clusters, current_price) }

\* Argument domain
MaxZoneLevels == 4

ScoredLevel(price, strength, touch_count, source, timeframes, fib_level) ==
    [price |-> price, strength |-> strength, touch_count |-> touch_count,
     source |-> source, timeframes |-> timeframes,
     coincides_with_fib |-> fib_level # 0, fib_level |-> fib_level]

ZoneLevelPool ==
    { ScoredLevel(1000000, 14, 2, {"swing"}, {"1D"}, 0),
      ScoredLevel(1004000, 15, 3, {"swing", "psychological"}, {"4H", "1D"}, 618),
      ScoredLevel(1004000, 9, 0, {"volume_profile"}, {}, 0),
      ScoredLevel(1006001, 20, 4, {"swing"}, {"1W"}, 650),
      ScoredLevel(1009000, 14, 1, {"swing"}, {"1H"}, 0),
      ScoredLevel(1013000, 3, 0, {"psychological"}, {}, 0) }

ZoneCurrentPrices == {1003000, 1020000}

\* One call of cluster_levels_into_zones.
ClusterZones ==
    /\ call.fn = "cluster_levels_into_zones" /\ call.pc = "call"
    /\ \E zones \in ClusterLevelsIntoZones(call.levels, call.current_price, ZONE_TOLERANCE_PCT) :
          call' = [call EXCEPT !.pc = "done", !.zones = zones]
    /\ UNCHANGED <<inst, frame, scan, lvl>>

InitZones ==
    /\ \E levels \in SeqsUpTo(ZoneLevelPool, MaxZoneLevels), current_price \in ZoneCurrentPrices :
          call = [fn |-> "cluster_levels_into_zones", pc |-> "call", levels |-> levels,
                  current_price |-> current_price, zones |-> <<>>]
    /\ IdleOld

NextZones == ClusterZones

SpecZones == InitZones /\ [][NextZones]_vars

ZonesReturned == call.fn = "cluster_levels_into_zones" /\ call.pc = "done"

\* The members of the zones, cluster after cluster in ascending price order
\* (the clusters are disjoint price ranges).
ZonesByPrice == SortedByPrice([k \in 1..Len(call.zones) |->
                    [price |-> call.zones[k].price_low, zone |-> call.zones[k]]])

\* price is within 0.5 % of the mean of the prices of m[1..k-1].
NearMeanOf(price, m, k) ==
    LET sum == SumPrices(SubSeq(m, 1, k - 1))
    IN  Abs(price * (k - 1) - sum) * 200 <= sum

\* C24: the zones returned hold every input level exactly once, hence as many
\* touches as the levels; the members of a zone ascend in price, each after the
\* first within 0.5 % of the mean of the members before it, and the first level
\* of the next zone in price order is not within 0.5 % of the mean of the whole
\* zone; a zone's strength is the largest of its members', the major-level flag
\* says whether that is 15 or more; and strengths do not increase along the list.
C24_ZonesByRunningMean ==
    ZonesReturned =>
        LET zones == call.zones
            byPrice == ZonesByPrice
        IN  /\ \A i, j \in 1..Len(zones) :
                  \A k \in 1..Len(zones[i].cluster), l \in 1..Len(zones[j].cluster) :
                      zones[i].cluster[k] = zones[j].cluster[l] => i = j /\ k = l
            /\ UNION { {zones[i].cluster[k] : k \in 1..Len(zones[i].cluster)} : i \in 1..Len(zones) }
               = {call.levels[k] : k \in 1..Len(call.levels)}
            /\ SumTouches(zones) = SumTouches(call.levels)
            /\ \A i \in 1..Len(zones) :
                  LET m == zones[i].cluster
                  IN  /\ m # <<>>
                      /\ \A k \in 2..Len(m) :
                            /\ m[k - 1].price <= m[k].price
                            /\ NearMeanOf(m[k].price, m, k)
                      /\ \A k \in 1..Len(m) : m[k].strength <= zones[i].strength
                      /\ \E k \in 1..Len(m) : m[k].strength = zones[i].strength
                      /\ zones[i].has_gran_nivel <=> zones[i].strength >= 15
                      /\ zones[i].touch_count = SumTouches(m)
            /\ \A i \in 1..(Len(byPrice) - 1) :
                  LET m == byPrice[i].zone.cluster
                      next == byPrice[i + 1].zone.cluster
                  IN  /\ m[Len(m)].price <= next[1].price
                      /\ ~NearMeanOf(next[1].price, m, Len(m) + 1)
            /\ \A i \in 1..(Len(zones) - 1) : zones[i].strength >= zones[i + 1].strength

\* Four levels in two zones: 10060.01 joins 10000 and 10040 (mean 10020),
\* 10090, given first, does not (it is within 0.5 % of 10060.01 but not of the
\* mean 10033.34), and the stronger zone comes first.
C24_Witness ==
    /\ ZonesReturned
    /\ Len(call.levels) = 4 /\ Len(call.zones) = 2
    /\ call.zones[1].strength = 20 /\ Len(call.zones[1].cluster) = 3
    /\ call.zones[1].touch_count = 9
    /\ call.zones[2].strength = 14 /\ call.zones[2].cluster[1].price = 1009000
    /\ call.levels[1].price = 1009000

-----------------------------------------------------------------------------
(* find_confluences: which levels end up in a confluence (SpecConfluence) *)

\* x and y are within tolerance_pct of each other, whichever of the two the
\* difference is measured against (prices positive).
WithinOfEachOther(x, y, tolerance_pct) ==
    /\ x.price > 0 /\ y.price > 0
    /\ Abs(x.price - y.price) * 1000 <= tolerance_pct * x.price
    /\ Abs(x.price - y.price) * 1000 <= tolerance_pct * y.price

\* C25: when two collected levels of different timeframes are within 0.5 % of
\* each other, some confluence returned has one of the two among its members.
C25_NearLevelsOfTwoTimeframesCovered ==
    ConfluencesReturned =>
        LET all_levels == CollectLevels(call.fib_data)
        IN  \A m, n \in 1..Len(all_levels) :
                /\ all_levels[m].timeframe # all_levels[n].timeframe
                /\ WithinOfEachOther(all_levels[m], all_levels[n], DEFAULT_TOLERANCE_PCT)
                => \E k \in 1..Len(call.result) :
                      \E i \in 1..Len(call.result[k].cluster) :
                          call.result[k].cluster[i] \in {all_levels[m], all_levels[n]}

-----------------------------------------------------------------------------
(* Claim about the Golden Pocket and level + fib bonuses (SpecScorer) *)

RetracementsNear(a) ==
    {i \in DOMAIN a.fibs.retracements :
         ScorerNear(a.price, a.fibs.retracements[i].price, 10)}

\* C26: of the +7 Golden Pocket bonus and the +5 level + fib bonus at most one is
\* added to bonus_levels; the +5 is added only when no retracement of ratio 0.618
\* or 0.650 is within 1% of price, some level of strength >= 10 is within 1% and
\* some retracement is within 1%.  bonus_levels is the sum of the added bonuses,
\* capped at 20.
C26_GoldenPocketExcludesCombo ==
    scan.called =>
        LET a == scan.a
            added == LevelBonusesAdded(a)
        IN  /\ ~(added.fib_golden_pocket = 7 /\ added.level_plus_fib = 5)
            /\ added.fib_golden_pocket \in {0, 7}
            /\ added.level_plus_fib \in {0, 5}
            /\ added.level_plus_fib = 5 =>
                   /\ \A i \in RetracementsNear(a) :
                          a.fibs.retracements[i].ratio \notin {618, 650}
                   /\ NearStrong(a) # {}
                   /\ RetracementsNear(a) # {}
            /\ scan.result.bonus_levels =
                   Min2(added.at_gran_nivel + added.fib_golden_pocket
                        + added.multi_tf_fib_confluence + added.level_plus_fib
                        + added.role_flip_level + added.psychological_level, 20)

\* A strong level, a 0.650 retracement and a 0.382 retracement are all within
\* 1% of price: the Golden Pocket bonus is added and the combo is not, 8 + 7.
C26_Witness ==
    /\ scan.called
    /\ scan.a.levels = {ScLevel(100300, 10, FALSE, FALSE)}
    /\ scan.a.fibs = [retracements |-> <<Fib(382, 99900), Fib(650, 100900)>>, extensions |-> <<>>]
    /\ scan.a.confluences = <<>>
    /\ LevelBonusesAdded(scan.a).fib_golden_pocket = 7
    /\ LevelBonusesAdded(scan.a).level_plus_fib = 0
    /\ scan.result.bonus_levels = 15

-----------------------------------------------------------------------------
(* Claim about duplicates in the level set (SpecLevelSet) *)

\* C27: at every step of the scan (swings, then volume zones, then
\* psychological levels), of any two levels of the set the one added later is
\* more than 0.3% away from the one added earlier, the distance taken relative
\* to the earlier level's price.  Levels are appended, so the list order is the
\* order of addition.
C27_NoDuplicateLevels ==
    call.fn = "scan_levels" =>
        \A j \in 1..Len(call.all_levels) : \A k \in 1..Len(call.all_levels) :
            j < k => ~WithinPct(call.all_levels[k].price, call.all_levels[j].price, 3)

-----------------------------------------------------------------------------
(* analysis/backtesting.py: evaluate_past_signals over the tables            *)
(* signal_history, btc_prices_1h and btc_prices.  Time is counted in hours   *)
(* from 1; a day is 24 hours, the first day is day 1; a timestamp            *)
(* is its hour, a date its day.  outcome null is "", hit_at null is 0, and   *)
(* a signal without sl/tp1 has them 0.  The tables are written by other jobs between the runs: the   *)
(* clock advances and price rows arrive, late ones included.  The store      *)
(* holds fewer than the 200 signals one run reads.  ran says that the latest *)
(* step was a run, reached and evaluated which signals that run took to the  *)
(* update and which updates went through.                                    *)

\* EVAL_HOURS.get(tf, 24)
EVAL_HOURS(tf) == CASE tf = "1H" -> 1 [] tf = "4H" -> 4 [] tf = "1W" -> 168 [] OTHER -> 24

\* The day of an hour: 24 hours a day.
DayOf(hour) == hour \div 24 + 1

\* The rows of a table in ascending order of their key (order(..., desc=False)).
RECURSIVE RowsAscending(_)
RowsAscending(rows) ==
    IF rows = {} THEN <<>>
    ELSE LET first == CHOOSE r \in rows : \A q \in rows : r.date <= q.date
         IN  <<first>> \o RowsAscending(rows \ {first})

\* The hourly rows from signal_dt to eval_after + 1 hour, the timestamp under
\* the key "date"; tried for 1H and 4H only.
HourlyAfter(btc_prices_1h, signal) ==
    IF signal.timeframe \in {"1H", "4H"}
    THEN RowsAscending({r \in btc_prices_1h :
             /\ r.date >= signal.date
             /\ r.date <= signal.date + EVAL_HOURS(signal.timeframe) + 1})
    ELSE <<>>

\* The daily rows from the signal's day to the day of eval_after + 1 day.
DailyAfter(btc_prices, signal) ==
    RowsAscending({r \in btc_prices :
        /\ r.date >= DayOf(signal.date)
        /\ r.date <= DayOf(signal.date + EVAL_HOURS(signal.timeframe) + 24)})

\* prices_after_data: the hourly rows, the daily rows when there are none.
PricesAfterData(btc_prices_1h, btc_prices, signal) ==
    IF HourlyAfter(btc_prices_1h, signal) # <<>> THEN HourlyAfter(btc_prices_1h, signal)
    ELSE DailyAfter(btc_prices, signal)

\* The fallback without sl/tp1: the direction of the last close against
\* price_at_signal (> 0).
DirectionOutcome(signal, prices) ==
    LET price_later == prices[Len(prices)].close
        change == price_later - signal.price_at_signal
    IN  IF signal.direction = "LONG"
        THEN (IF change > 0 THEN "correct" ELSE "incorrect")
        ELSE IF signal.direction = "SHORT"
        THEN (IF change < 0 THEN "correct" ELSE "incorrect")
        ELSE (IF Abs(change) * 100 < signal.price_at_signal THEN "correct" ELSE "incorrect")

\* outcome and hit_at of one signal on the rows found (hit_at: the date of
\* the row _evaluate_tpsl stopped at).
SignalOutcome(signal, prices) ==
    IF signal.sl # 0 /\ signal.tp1 # 0
    THEN LET r == EvaluateTpsl(signal.direction, signal.sl, signal.tp1, signal.tp2, prices)
         IN  Outcome(r.outcome, IF r.hit_at = 0 THEN 0 ELSE prices[r.hit_at].date)
    ELSE Outcome(DirectionOutcome(signal, prices), 0)

PendingSignalsAnyOutcome(signal_history) == DOMAIN signal_history

\* The ids the query .is_("outcome", "null") returns.
PendingSignals(signal_history) == {id \in DOMAIN signal_history : signal_history[id].outcome = ""}

\* The signals of a run that reach the update: window elapsed, rows found.
Evaluable(c) ==
    {id \in PendingSignals(c.signal_history) :
        /\ c.now >= c.signal_history[id].date + EVAL_HOURS(c.signal_history[id].timeframe)
        /\ PricesAfterData(c.btc_prices_1h, c.btc_prices, c.signal_history[id]) # <<>>}

\* The row of a signal after its update ("if hit_at: update['hit_at'] = hit_at").
Updated(signal, o) ==
    [signal EXCEPT !.outcome = o.outcome, !.hit_at = IF o.hit_at # 0 THEN o.hit_at ELSE @]

\* Argument domain
MaxHour == 5

MaxHourlyRows == 3

StoredSignal(date, timeframe, direction, sl, tp1, tp2) ==
    [date |-> date, timeframe |-> timeframe, direction |-> direction,
     price_at_signal |-> 100, sl |-> sl, tp1 |-> tp1, tp2 |-> tp2,
     outcome |-> "", hit_at |-> 0]

SignalStores ==
    { <<StoredSignal(1, "1H", "LONG", 95, 110, 120)>>,
      <<StoredSignal(1, "1H", "LONG", 95, 110, 120), StoredSignal(1, "4H", "SHORT", 105, 90, 0)>>,
      <<StoredSignal(1, "4H", "SHORT", 105, 90, 0), StoredSignal(2, "1H", "LONG", 0, 0, 0)>>,
      <<StoredSignal(2, "1D", "SHORT", 0, 0, 0)>> }

PriceRow(date, high, low, close) == [date |-> date, high |-> high, low |-> low, close |-> close]

PriceShapes == { <<108, 98, 104>>, <<112, 94, 96>>, <<121, 98, 115>> }

\* One run of evaluate_past_signals; an update that raises leaves the row as
\* it was.
EvaluatePastSignals ==
    /\ call.fn = "evaluate_past_signals"
    /\ \E failed \in SUBSET Evaluable(call) :
         LET written == Evaluable(call) \ failed
         IN  call' = [call EXCEPT
                 !.signal_history =
                     [id \in DOMAIN call.signal_history |->
                         IF id \in written
                         THEN Updated(call.signal_history[id],
                                  SignalOutcome(call.signal_history[id],
                                      PricesAfterData(call.btc_prices_1h, call.btc_prices,
                                                      call.signal_history[id])))
                         ELSE call.signal_history[id]],
                 !.ran = TRUE,
                 !.reached = Evaluable(call),
                 !.evaluated = written]
    /\ UNCHANGED <<inst, frame, scan, lvl>>

\* An hour passes.
HourPasses ==
    /\ call.fn = "evaluate_past_signals"
    /\ call.now < MaxHour
    /\ call' = [call EXCEPT !.now = @ + 1, !.ran = FALSE, !.reached = {}, !.evaluated = {}]
    /\ UNCHANGED <<inst, frame, scan, lvl>>

\* The price job stores the candle of an hour gone by.
HourlyRowArrives ==
    /\ call.fn = "evaluate_past_signals"
    /\ Cardinality(call.btc_prices_1h) < MaxHourlyRows
    /\ \E hour \in 1..call.now, shape \in PriceShapes :
         /\ \A r \in call.btc_prices_1h : r.date # hour
         /\ call' = [call EXCEPT !.btc_prices_1h =
                                      @ \cup {PriceRow(hour, shape[1], shape[2], shape[3])},
                                  !.ran = FALSE, !.reached = {}, !.evaluated = {}]
    /\ UNCHANGED <<inst, frame, scan, lvl>>

\* The price job stores the daily candle.
DailyRowArrives ==
    /\ call.fn = "evaluate_past_signals"
    /\ \E shape \in PriceShapes :
         /\ \A r \in call.btc_prices : r.date # DayOf(call.now)
         /\ call' = [call EXCEPT !.btc_prices =
                                      @ \cup {PriceRow(DayOf(call.now), shape[1], shape[2], shape[3])},
                                  !.ran = FALSE, !.reached = {}, !.evaluated = {}]
    /\ UNCHANGED <<inst, frame, scan, lvl>>

InitBacktest ==
    /\ \E signal_history \in SignalStores :
           call = [fn |-> "evaluate_past_signals", now |-> 1,
                   signal_history |-> signal_history, btc_prices_1h |-> {},
                   btc_prices |-> {}, ran |-> FALSE, reached |-> {}, evaluated |-> {}]
    /\ IdleOld

NextBacktest == EvaluatePastSignals \/ HourPasses \/ HourlyRowArrives \/ DailyRowArrives

SpecBacktest == InitBacktest /\ [][NextBacktest]_vars

\* C28: a step changes the outcome of a signal only if the outcome was null
\* and the signal's evaluation window had elapsed; a signal whose outcome has
\* been written (sl_hit, tp1_hit, tp2_hit, pending, correct or incorrect)
\* keeps its outcome and hit_at in every later step, so "pending" is final.
C28_OutcomeDecidedOnce ==
    [][call.fn = "evaluate_past_signals" =>
        \A id \in DOMAIN call.signal_history :
            LET before == call.signal_history[id]
                after == call'.signal_history[id]
            IN  /\ before.outcome # "" =>
                       after.outcome = before.outcome /\ after.hit_at = before.hit_at
                /\ after.outcome # before.outcome =>
                       /\ before.outcome = ""
                       /\ call.now >= before.date + EVAL_HOURS(before.timeframe)
                       /\ after.outcome \in {"sl_hit", "tp1_hit", "tp2_hit", "pending",
                                             "correct", "incorrect"}]_vars

\* A signal was written "pending" by an earlier run; rows that arrived since
\* would now give sl_hit, and the run just made has left the signal alone.
C28_Witness ==
    /\ call.fn = "evaluate_past_signals"
    /\ call.ran
    /\ \E id \in DOMAIN call.signal_history :
          LET signal == call.signal_history[id]
              prices == PricesAfterData(call.btc_prices_1h, call.btc_prices, signal)
          IN  /\ signal.outcome = "pending"
              /\ id \notin call.evaluated
              /\ prices # <<>>
              /\ SignalOutcome(signal, prices).outcome = "sl_hit"

-----------------------------------------------------------------------------
(* analysis/backtesting.py: store_signal_snapshot.  The total score of a     *)
(* timeframe (the weighted sum of its signals) is an input, in units of      *)
(* 0.0001; no total below puts round() on a tie.  What the extended scorer   *)
(* and the TP/SL calculator do for a timeframe (return, or raise) is an      *)
(* input too.  A record is keyed by (date, timeframe), the date being the    *)
(* run's "now".                                                              *)

\* The keys of WEIGHTS, in its order
WeightedTimeframes == <<"1H", "4H", "1D", "1W">>

\* Pass 1: direction and confidence of a total score
BaseSignal(total_score) ==
    [direction |-> IF total_score > 2500 THEN "LONG"
                   ELSE IF total_score < -2500 THEN "SHORT" ELSE "NEUTRAL",
     confidence |-> Min2(RoundHalfEven(Abs(total_score), 100), 100),
     score |-> total_score]

\* The classification of the base confidence
SnapshotClassification(display_score) ==
    IF display_score >= 85 THEN "PREMIUM"
    ELSE IF display_score >= 70 THEN "STRONG"
    ELSE IF display_score >= 55 THEN "VALID"
    ELSE IF display_score >= 40 THEN "WEAK"
    ELSE "NO ENTRY"

\* The record of a timeframe as it reaches the upsert: extended_score is set
\* when v2 data is there and the scorer returned, sl/tp1/tp2 when v2 data is
\* there and the calculator returned a valid result; an exception of either
\* is caught and leaves its keys out.
SnapshotRecord(c, tf) ==
    LET base == BaseSignal(c.total_score[tf])
    IN  [date |-> c.now, timeframe |-> tf, direction |-> base.direction,
         confidence |-> base.confidence, score |-> base.score,
         has_extended_score |-> c.v2_data /\ tf \notin c.scorer_raises,
         has_tpsl |-> c.v2_data /\ tf \notin c.tpsl_raises /\ tf \in c.tpsl_valid,
         classification |-> SnapshotClassification(base.confidence)]

\* upsert(record, on_conflict="date,timeframe")
UpsertSnapshot(signal_history, record) ==
    {r \in signal_history : ~(r.date = record.date /\ r.timeframe = record.timeframe)}
        \cup {record}

\* Whether the name ext_score, read by the log line before the upsert, is
\* bound: no statement of the module assigns it.
ExtScoreBound == FALSE

\* Argument domain
TotalScores == {-6500, 1200, 3200, 4200}

RaisingChoices == {{}, {"1H"}, {"4H", "1D"}}

\* The start of a run: no price row returns at once, else pass 1.
SnapshotStart ==
    /\ call.fn = "store_signal_snapshot"
    /\ call.pc = "start"
    /\ call' = [call EXCEPT !.pc = IF call.has_price THEN "pass2" ELSE "returned"]
    /\ UNCHANGED <<inst, frame, scan, lvl>>

\* One iteration of pass 2, for the timeframe at position k of WEIGHTS.
SnapshotTimeframe ==
    /\ call.fn = "store_signal_snapshot"
    /\ call.pc = "pass2"
    /\ call.k <= Len(WeightedTimeframes)
    /\ LET tf == WeightedTimeframes[call.k]
           base == BaseSignal(call.total_score[tf])
       IN  IF base.direction = "NEUTRAL" \/ base.confidence < 40
           THEN call' = [call EXCEPT !.k = @ + 1]
           ELSE IF ~ExtScoreBound
           THEN call' = [call EXCEPT !.pc = "raised", !.exception = "NameError"]
           ELSE call' = [call EXCEPT
                    !.k = @ + 1,
                    !.signal_history = UpsertSnapshot(@, SnapshotRecord(call, tf)),
                    !.snapshots = @ + 1]
    /\ UNCHANGED <<inst, frame, scan, lvl>>

\* The return after the last timeframe.
SnapshotReturn ==
    /\ call.fn = "store_signal_snapshot"
    /\ call.pc = "pass2"
    /\ call.k > Len(WeightedTimeframes)
    /\ call' = [call EXCEPT !.pc = "returned"]
    /\ UNCHANGED <<inst, frame, scan, lvl>>

InitSnapshot ==
    /\ \E total_score \in [{"1H", "4H", "1D", "1W"} -> TotalScores],
          has_price \in BOOLEAN, v2_data \in BOOLEAN,
          scorer_raises \in RaisingChoices, tpsl_raises \in RaisingChoices :
           call = [fn |-> "store_signal_snapshot", pc |-> "start", now |-> 1, k |-> 1,
                   has_price |-> has_price, total_score |-> total_score,
                   v2_data |-> v2_data, scorer_raises |-> scorer_raises,
                   tpsl_raises |-> tpsl_raises, tpsl_valid |-> {"1H", "1D", "1W"},
                   signal_history |-> {}, snapshots |-> 0, exception |-> ""]
    /\ IdleOld

NextSnapshot == SnapshotStart \/ SnapshotTimeframe \/ SnapshotReturn

SpecSnapshot == InitSnapshot /\ [][NextSnapshot]_vars

\* C29: a run with price data never raises, and when it has returned,
\* signal_history holds exactly one record for every timeframe whose base
\* direction is LONG or SHORT and whose base confidence is >= 40, and none for
\* a timeframe that is NEUTRAL or below 40, whether or not the extended
\* scorer or the TP/SL calculator raised for a timeframe.
C29_OneRecordPerQualifyingTimeframe ==
    call.fn = "store_signal_snapshot" /\ call.has_price =>
        /\ call.pc # "raised"
        /\ call.pc = "returned" =>
               \A k \in 1..Len(WeightedTimeframes) :
                   LET tf == WeightedTimeframes[k]
                       base == BaseSignal(call.total_score[tf])
                       stored == {r \in call.signal_history : r.timeframe = tf}
                   IN  IF base.direction \in {"LONG", "SHORT"} /\ base.confidence >= 40
                       THEN Cardinality(stored) = 1
                       ELSE stored = {}

-----------------------------------------------------------------------------
(* analysis/alerts.py, analysis/patterns.py: check_alerts over the tables    *)
(* alerts and cycle_score_history.  A date is a day number; a title is the   *)
(* tuple of what its text is made of; the latest cycle score is an integer,  *)
(* -1 when the table is empty.  Which patterns detect_patterns finds is an   *)
(* input of a run.  No alert below is acknowledged.  ran says that the       *)
(* latest step was a run, returned what it returned, cycle_counted what the  *)
(* cycle rules added to the count, and added which rows it inserted.         *)

AlertRow(date, type, title) == [date |-> date, type |-> type, title |-> title, acknowledged |-> FALSE]

\* analysis/patterns.py, _create_alert: nothing is inserted when an
\* unacknowledged alert has the title.
CreatePatternAlert(alerts, today, title) ==
    IF \E r \in alerts : r.title = title /\ ~r.acknowledged THEN alerts
    ELSE alerts \cup {AlertRow(today, "technical", title)}

\* analysis/patterns.py, detect_patterns: an alert for every pattern found.
RECURSIVE DetectPatternAlerts(_, _, _)
DetectPatternAlerts(alerts, today, found) ==
    IF found = <<>> THEN alerts
    ELSE DetectPatternAlerts(CreatePatternAlert(alerts, today, Head(found)), today, Tail(found))

\* analysis/alerts.py, _create_alert: nothing is inserted when an alert of
\* the type and title exists with a date from today on.
CreateAlert(alerts, today, type, title) ==
    IF \E r \in alerts : r.type = type /\ r.title = title /\ r.date >= today THEN alerts
    ELSE alerts \cup {AlertRow(today, type, title)}

\* The title of the cycle alert of a score, <<>> when the score calls for none.
CycleTitle(score) ==
    IF score > 85 THEN <<"Cycle Score >85 - Euphoria zone", score>>
    ELSE IF score < 15 THEN <<"Cycle Score <15 - Capitulation zone", score>>
    ELSE <<>>

\* Argument domain
MaxDay == 2

CycleScores == {-1, 10, 15, 50, 85, 90, 95}

PatternsFound == {<<>>, << <<"Golden Cross detectado">> >>,
                  << <<"Golden Cross detectado">>, <<"RSI en zona de sobrecompra">> >>}

\* One run of check_alerts.
CheckAlerts ==
    /\ call.fn = "check_alerts"
    /\ \E found \in PatternsFound :
         LET after_patterns == DetectPatternAlerts(call.alerts, call.today, found)
             has_score == call.score # -1
             title == IF has_score THEN CycleTitle(call.score) ELSE <<>>
             after == IF title # <<>>
                      THEN CreateAlert(after_patterns, call.today, "cycle", title)
                      ELSE after_patterns
             cycle == IF title # <<>> THEN 1 ELSE 0
         IN  call' = [call EXCEPT !.alerts = after,
                                  !.ran = TRUE,
                                  !.returned = Len(found) + cycle,
                                  !.cycle_counted = cycle,
                                  !.added = after \ call.alerts]
    /\ UNCHANGED <<inst, frame, scan, lvl>>

\* The cycle-score job stores a new latest score.
CycleScoreStored ==
    /\ call.fn = "check_alerts"
    /\ \E score \in CycleScores \ {-1, call.score} :
         call' = [call EXCEPT !.score = score, !.ran = FALSE, !.returned = 0,
                              !.cycle_counted = 0, !.added = {}]
    /\ UNCHANGED <<inst, frame, scan, lvl>>

\* A day passes.
DayPasses ==
    /\ call.fn = "check_alerts"
    /\ call.today < MaxDay
    /\ call' = [call EXCEPT !.today = @ + 1, !.ran = FALSE, !.returned = 0,
                            !.cycle_counted = 0, !.added = {}]
    /\ UNCHANGED <<inst, frame, scan, lvl>>

InitAlerts ==
    /\ \E score \in CycleScores :
           call = [fn |-> "check_alerts", today |-> 1, score |-> score, alerts |-> {},
                   ran |-> FALSE, returned |-> 0, cycle_counted |-> 0, added |-> {}]
    /\ IdleOld

NextAlerts == CheckAlerts \/ CycleScoreStored \/ DayPasses

SpecAlerts == InitAlerts /\ [][NextAlerts]_vars

\* C30: a run of check_alerts returns the number of alert rows it inserted,
\* and the cycle rules contribute to that count the number of cycle rows
\* inserted: 0 for a score from 15 to 85, and 0 when the alert of the score
\* already exists for today.
C30_ReturnsNewAlerts ==
    call.fn = "check_alerts" /\ call.ran =>
        /\ call.returned = Cardinality(call.added)
        /\ call.cycle_counted = Cardinality({r \in call.added : r.type = "cycle"})
        /\ (call.score >= 15 /\ call.score <= 85) => call.cycle_counted = 0

====
